---- MODULE Spec2Model ----
(***************************************************************************)
(* Evidence & Argumentation Engine: ArgumentMiner (argument graph,         *)
(* strength and consensus), ContextBuilder.calculateRiskAssessment and     *)
(* EvidenceExtractor.findSimilarChanges.                                   *)
(*                                                                         *)
(* A JavaScript string is a sequence of one-character strings, so that     *)
(* the regular expressions and string methods of the source are computed   *)
(* character by character.  Positions are 1-based; a match is given by the *)
(* position of its last character.                                         *)
(***************************************************************************)
EXTENDS Integers, Sequences, FiniteSets, TLC

\* ------------------------------------------------------------------------
\* Characters and string primitives
\* ------------------------------------------------------------------------

Space == {" ", "\n", "\t"}

\* the grave accent (U+0060), which a TLA+ string cannot contain
Backtick == "GRAVE"

Digit == {"0", "1", "2", "3", "4", "5", "6", "7", "8", "9"}

LowerLetter ==
  {"a", "b", "c", "d", "e", "f", "g", "h", "i", "j", "k", "l", "m",
   "n", "o", "p", "q", "r", "s", "t", "u", "v", "w", "x", "y", "z"}

UpperLetter ==
  {"A", "B", "C", "D", "E", "F", "G", "H", "I", "J", "K", "L", "M",
   "N", "O", "P", "Q", "R", "S", "T", "U", "V", "W", "X", "Y", "Z"}

\* \w
WordChar == LowerLetter \cup UpperLetter \cup Digit \cup {"_"}

\* [a-f0-9]
HexChar == Digit \cup {"a", "b", "c", "d", "e", "f"}

LowerOf ==
  ("A" :> "a") @@ ("B" :> "b") @@ ("C" :> "c") @@ ("D" :> "d") @@
  ("E" :> "e") @@ ("F" :> "f") @@ ("G" :> "g") @@ ("H" :> "h") @@
  ("I" :> "i") @@ ("J" :> "j") @@ ("K" :> "k") @@ ("L" :> "l") @@
  ("M" :> "m") @@ ("N" :> "n") @@ ("O" :> "o") @@ ("P" :> "p") @@
  ("Q" :> "q") @@ ("R" :> "r") @@ ("S" :> "s") @@ ("T" :> "t") @@
  ("U" :> "u") @@ ("V" :> "v") @@ ("W" :> "w") @@ ("X" :> "x") @@
  ("Y" :> "y") @@ ("Z" :> "z")

toLowerCase(t) ==
  [i \in 1..Len(t) |-> IF t[i] \in UpperLetter THEN LowerOf[t[i]] ELSE t[i]]

Min(a, b) == IF a <= b THEN a ELSE b

Max(a, b) == IF a >= b THEN a ELSE b

\* text.substring(from, to), 0-based, to exclusive
substring(t, from, to) == SubSeq(t, from + 1, Min(to, Len(t)))

\* the text has lit at position p
LitAt(t, p, lit) ==
  /\ p >= 1
  /\ p + Len(lit) - 1 <= Len(t)
  /\ SubSeq(t, p, p + Len(lit) - 1) = lit

\* text.includes(sub)
includes(t, sub) == \E p \in 1..(Len(t) - Len(sub) + 1) : LitAt(t, p, sub)

MinOf(S) == CHOOSE x \in S : \A y \in S : x <= y

MaxOf(S) == CHOOSE x \in S : \A y \in S : x >= y

\* last position of the longest run of characters of class cls that starts
\* at p (p - 1 when the run is empty)
RunIn(t, p, cls) ==
  LET stops == {i \in p..Len(t) : t[i] \notin cls}
  IN  IF stops = {} THEN Max(Len(t), p - 1) ELSE MinOf(stops) - 1

\* the same for a negated class [^...]
RunNotIn(t, p, cls) ==
  LET stops == {i \in p..Len(t) : t[i] \in cls}
  IN  IF stops = {} THEN Max(Len(t), p - 1) ELSE MinOf(stops) - 1

\* text.trim()
trim(t) ==
  LET kept == {i \in 1..Len(t) : t[i] \notin Space}
  IN  IF kept = {} THEN <<>> ELSE SubSeq(t, MinOf(kept), MaxOf(kept))

\* text.split(regex) and text.matchAll(regex): matchEnd[p] is the last
\* position of the regex's match starting at p, or 0 when it does not match
\* at p.  The matches are taken leftmost first and do not overlap.
RECURSIVE MatchesFrom(_, _, _)
MatchesFrom(matchEnd, starts, from) ==
  LET left == {q \in starts : q >= from}
      q    == MinOf(left)
  IN  IF left = {} THEN <<>>
      ELSE <<[first |-> q, last |-> matchEnd[q]]>>
           \o MatchesFrom(matchEnd, starts, matchEnd[q] + 1)

AllMatches(matchEnd, n) ==
  MatchesFrom(matchEnd, {q \in 1..n : matchEnd[q] # 0}, 1)

RECURSIVE SplitAtMatches(_, _, _)
SplitAtMatches(t, ms, from) ==
  IF ms = <<>> THEN <<SubSeq(t, from, Len(t))>>
  ELSE <<SubSeq(t, from, ms[1].first - 1)>>
       \o SplitAtMatches(t, Tail(ms), ms[1].last + 1)

SelectParts(parts, minLen) == SelectSeq(parts, LAMBDA p : Len(trim(p)) > minLen)

\* ------------------------------------------------------------------------
\* Literals of the source
\* ------------------------------------------------------------------------

\* claim
KwClaim == <<"c", "l", "a", "i", "m">>

\* ground
KwGround == <<"g", "r", "o", "u", "n", "d">>

\* warrant
KwWarrant == <<"w", "a", "r", "r", "a", "n", "t">>

\* /should not|must not|avoid|prevent|dangerous|vulnerable|risk/i
negativePhrases ==
  {<<"s", "h", "o", "u", "l", "d", " ", "n", "o", "t">>,
   <<"m", "u", "s", "t", " ", "n", "o", "t">>,
   <<"a", "v", "o", "i", "d">>,
   <<"p", "r", "e", "v", "e", "n", "t">>,
   <<"d", "a", "n", "g", "e", "r", "o", "u", "s">>,
   <<"v", "u", "l", "n", "e", "r", "a", "b", "l", "e">>,
   <<"r", "i", "s", "k">>}

\* /should|must|improve|enhance|benefit|secure|safe/i
positivePhrases ==
  {<<"s", "h", "o", "u", "l", "d">>,
   <<"m", "u", "s", "t">>,
   <<"i", "m", "p", "r", "o", "v", "e">>,
   <<"e", "n", "h", "a", "n", "c", "e">>,
   <<"b", "e", "n", "e", "f", "i", "t">>,
   <<"s", "e", "c", "u", "r", "e">>,
   <<"s", "a", "f", "e">>}

\* the antonym pairs of areConflicting
opposites ==
  <<<<<<"a", "p", "p", "r", "o", "v", "e">>, <<"r", "e", "j", "e", "c", "t">>>>,
    <<<<"a", "l", "l", "o", "w">>, <<"d", "e", "n", "y">>>>,
    <<<<"e", "n", "a", "b", "l", "e">>, <<"d", "i", "s", "a", "b", "l", "e">>>>,
    <<<<"i", "n", "c", "l", "u", "d", "e">>, <<"e", "x", "c", "l", "u", "d", "e">>>>>>

\* '...'
Ellipsis == <<".", ".", ".">>

\* 'api'
KwApi == <<"a", "p", "i">>

\* 'interface'
KwInterface == <<"i", "n", "t", "e", "r", "f", "a", "c", "e">>

\* 'low'
LevelLow == <<"l", "o", "w">>

\* 'medium'
LevelMedium == <<"m", "e", "d", "i", "u", "m">>

\* 'high'
LevelHigh == <<"h", "i", "g", "h">>

\* 'critical'
LevelCritical == <<"c", "r", "i", "t", "i", "c", "a", "l">>

\* 'none'
LevelNone == <<"n", "o", "n", "e">>

\* 'Overall risk: '
OverallRiskPrefix == <<"O", "v", "e", "r", "a", "l", "l", " ", "r", "i", "s", "k", ":", " ">>

\* '. Key concerns: '
KeyConcernsPrefix == <<".", " ", "K", "e", "y", " ", "c", "o", "n", "c", "e", "r", "n", "s", ":", " ">>

\* 'security '
ConcernSecurity == <<"s", "e", "c", "u", "r", "i", "t", "y", " ">>

\* 'performance '
ConcernPerformance == <<"p", "e", "r", "f", "o", "r", "m", "a", "n", "c", "e", " ">>

\* 'architecture '
ConcernArchitecture == <<"a", "r", "c", "h", "i", "t", "e", "c", "t", "u", "r", "e", " ">>

\* 'compatibility'
ConcernCompatibility == <<"c", "o", "m", "p", "a", "t", "i", "b", "i", "l", "i", "t", "y">>

\* 'None identified'
NoneIdentified == <<"N", "o", "n", "e", " ", "i", "d", "e", "n", "t", "i", "f", "i", "e", "d">>

\* 'Deeply nested loops in '
NestedLoopsIn == <<"D", "e", "e", "p", "l", "y", " ", "n", "e", "s", "t", "e", "d", " ", "l", "o", "o", "p", "s", " ", "i", "n", " ">>

\* 'Convert sync I/O to async in '
SyncIOIn == <<"C", "o", "n", "v", "e", "r", "t", " ", "s", "y", "n", "c", " ", "I", "/", "O", " ", "t", "o", " ", "a", "s", "y", "n", "c", " ", "i", "n", " ">>

\* 'Optimize array operations in '
ArrayOperationsIn == <<"O", "p", "t", "i", "m", "i", "z", "e", " ", "a", "r", "r", "a", "y", " ", "o", "p", "e", "r", "a", "t", "i", "o", "n", "s", " ", "i", "n", " ">>

\* 'N+1 query pattern detected in '
NPlusOneIn == <<"N", "+", "1", " ", "q", "u", "e", "r", "y", " ", "p", "a", "t", "t", "e", "r", "n", " ", "d", "e", "t", "e", "c", "t", "e", "d", " ", "i", "n", " ">>

\* the template of exportGraphML around its nodes and its edges
GraphMLTemplate ==
  <<<<"<", "?", "x", "m", "l", " ", "v", "e", "r", "s", "i", "o", "n", "=", "\"", "1", ".", "0", "\"", " ", "e", "n", "c", "o", "d", "i", "n", "g", "=", "\"", "U", "T", "F", "-", "8", "\"", "?", ">", "\n", "<", "g", "r", "a", "p", "h", "m", "l", " ", "x", "m", "l", "n", "s", "=", "\"", "h", "t", "t", "p", ":", "/", "/", "g", "r", "a", "p", "h", "m", "l", ".", "g", "r", "a", "p", "h", "d", "r", "a", "w", "i", "n", "g", ".", "o", "r", "g", "/", "x", "m", "l", "n", "s", "\"", ">", "\n", " ", " ", "<", "k", "e", "y", " ", "i", "d", "=", "\"", "l", "a", "b", "e", "l", "\"", " ", "f", "o", "r", "=", "\"", "n", "o", "d", "e", "\"", " ", "a", "t", "t", "r", ".", "n", "a", "m", "e", "=", "\"", "l", "a", "b", "e", "l", "\"", " ", "a", "t", "t", "r", ".", "t", "y", "p", "e", "=", "\"", "s", "t", "r", "i", "n", "g", "\"", "/", ">", "\n", " ", " ", "<", "k", "e", "y", " ", "i", "d", "=", "\"", "a", "g", "e", "n", "t", "\"", " ", "f", "o", "r", "=", "\"", "n", "o", "d", "e", "\"", " ", "a", "t", "t", "r", ".", "n", "a", "m", "e", "=", "\"", "a", "g", "e", "n", "t", "\"", " ", "a", "t", "t", "r", ".", "t", "y", "p", "e", "=", "\"", "s", "t", "r", "i", "n", "g", "\"", "/", ">", "\n", " ", " ", "<", "k", "e", "y", " ", "i", "d", "=", "\"", "s", "t", "r", "e", "n", "g", "t", "h", "\"", " ", "f", "o", "r", "=", "\"", "n", "o", "d", "e", "\"", " ", "a", "t", "t", "r", ".", "n", "a", "m", "e", "=", "\"", "s", "t", "r", "e", "n", "g", "t", "h", "\"", " ", "a", "t", "t", "r", ".", "t", "y", "p", "e", "=", "\"", "d", "o", "u", "b", "l", "e", "\"", "/", ">", "\n", " ", " ", "<", "k", "e", "y", " ", "i", "d", "=", "\"", "t", "y", "p", "e", "\"", " ", "f", "o", "r", "=", "\"", "e", "d", "g", "e", "\"", " ", "a", "t", "t", "r", ".", "n", "a", "m", "e", "=", "\"", "t", "y", "p", "e", "\"", " ", "a", "t", "t", "r", ".", "t", "y", "p", "e", "=", "\"", "s", "t", "r", "i", "n", "g", "\"", "/", ">", "\n", " ", " ", "<", "k", "e", "y", " ", "i", "d", "=", "\"", "w", "e", "i", "g", "h", "t", "\"", " ", "f", "o", "r", "=", "\"", "e", "d", "g", "e", "\"", " ", "a", "t", "t", "r", ".", "n", "a", "m", "e", "=", "\"", "w", "e", "i", "g", "h", "t", "\"", " ", "a", "t", "t", "r", ".", "t", "y", "p", "e", "=", "\"", "d", "o", "u", "b", "l", "e", "\"", "/", ">", "\n", " ", " ", "\n", " ", " ", "<", "g", "r", "a", "p", "h", " ", "i", "d", "=", "\"", "A", "r", "g", "u", "m", "e", "n", "t", "G", "r", "a", "p", "h", "\"", " ", "e", "d", "g", "e", "d", "e", "f", "a", "u", "l", "t", "=", "\"", "d", "i", "r", "e", "c", "t", "e", "d", "\"", ">", "\n">>,
    <<"\n", " ", " ", " ", " ", "\n">>,
    <<"\n", " ", " ", "<", "/", "g", "r", "a", "p", "h", ">", "\n", "<", "/", "g", "r", "a", "p", "h", "m", "l", ">">>>>

\* the template of a node, cut at its four substitutions
NodeTemplate ==
  <<<<" ", " ", " ", " ", "<", "n", "o", "d", "e", " ", "i", "d", "=", "\"">>,
    <<"\"", ">", "\n", " ", " ", " ", " ", " ", " ", "<", "d", "a", "t", "a", " ", "k", "e", "y", "=", "\"", "l", "a", "b", "e", "l", "\"", ">">>,
    <<"<", "/", "d", "a", "t", "a", ">", "\n", " ", " ", " ", " ", " ", " ", "<", "d", "a", "t", "a", " ", "k", "e", "y", "=", "\"", "a", "g", "e", "n", "t", "\"", ">">>,
    <<"<", "/", "d", "a", "t", "a", ">", "\n", " ", " ", " ", " ", " ", " ", "<", "d", "a", "t", "a", " ", "k", "e", "y", "=", "\"", "s", "t", "r", "e", "n", "g", "t", "h", "\"", ">">>,
    <<"<", "/", "d", "a", "t", "a", ">", "\n", " ", " ", " ", " ", "<", "/", "n", "o", "d", "e", ">">>>>

\* the template of an edge, cut at its five substitutions
EdgeTemplate ==
  <<<<" ", " ", " ", " ", "<", "e", "d", "g", "e", " ", "i", "d", "=", "\"", "e">>,
    <<"\"", " ", "s", "o", "u", "r", "c", "e", "=", "\"">>,
    <<"\"", " ", "t", "a", "r", "g", "e", "t", "=", "\"">>,
    <<"\"", ">", "\n", " ", " ", " ", " ", " ", " ", "<", "d", "a", "t", "a", " ", "k", "e", "y", "=", "\"", "t", "y", "p", "e", "\"", ">">>,
    <<"<", "/", "d", "a", "t", "a", ">", "\n", " ", " ", " ", " ", " ", " ", "<", "d", "a", "t", "a", " ", "k", "e", "y", "=", "\"", "w", "e", "i", "g", "h", "t", "\"", ">">>,
    <<"<", "/", "d", "a", "t", "a", ">", "\n", " ", " ", " ", " ", "<", "/", "e", "d", "g", "e", ">">>>>

\* the type of an edge as text
EdgeTypeText ==
  [supports |-> <<"s", "u", "p", "p", "o", "r", "t", "s">>,
   rebuts |-> <<"r", "e", "b", "u", "t", "s">>,
   undermines |-> <<"u", "n", "d", "e", "r", "m", "i", "n", "e", "s">>]

\* the digits of a UUID before its last group
UuidPrefix == <<"0", "0", "0", "0", "0", "0", "0", "0", "-", "0", "0", "0", "0", "-", "4", "0", "0", "0", "-", "8", "0", "0", "0", "-">>

\* the entities of XML
Entities ==
  {<<"&", "a", "m", "p", ";">>,
   <<"&", "l", "t", ";">>,
   <<"&", "g", "t", ";">>,
   <<"&", "q", "u", "o", "t", ";">>,
   <<"&", "a", "p", "o", "s", ";">>}

\* (?:WHERE|SELECT|INSERT|UPDATE|DELETE), in lower case
SqlKeywords ==
  {<<"w", "h", "e", "r", "e">>,
   <<"s", "e", "l", "e", "c", "t">>,
   <<"i", "n", "s", "e", "r", "t">>,
   <<"u", "p", "d", "a", "t", "e">>,
   <<"d", "e", "l", "e", "t", "e">>}

\* (exec|spawn|system)
CommandCalls ==
  {<<"e", "x", "e", "c">>,
   <<"s", "p", "a", "w", "n">>,
   <<"s", "y", "s", "t", "e", "m">>}

\* innerHTML, in lower case
KwInnerHtml == <<"i", "n", "n", "e", "r", "h", "t", "m", "l">>

\* user|input|param
XssSources ==
  {<<"u", "s", "e", "r">>,
   <<"i", "n", "p", "u", "t">>,
   <<"p", "a", "r", "a", "m">>}

\* (api[_-]?key|secret|password|token)
SecretNames ==
  {<<"a", "p", "i", "k", "e", "y">>,
   <<"a", "p", "i", "_", "k", "e", "y">>,
   <<"a", "p", "i", "-", "k", "e", "y">>,
   <<"s", "e", "c", "r", "e", "t">>,
   <<"p", "a", "s", "s", "w", "o", "r", "d">>,
   <<"t", "o", "k", "e", "n">>}

\* (MD5|SHA1|DES|RC4), in lower case
WeakAlgorithms ==
  {<<"m", "d", "5">>,
   <<"s", "h", "a", "1">>,
   <<"d", "e", "s">>,
   <<"r", "c", "4">>}

\* ------------------------------------------------------------------------
\* Texts the model works on
\* ------------------------------------------------------------------------

\* AgentSec: sec
AgentSec ==
  <<
    "s","e","c"
  >>

\* AgentPerf: perf
AgentPerf ==
  <<
    "p","e","r","f"
  >>

\* AgentQa: Q&A
AgentQa ==
  <<
    "Q","&","A"
  >>

\* OutApprove: Claim: We should approve this change\nGrounds: all tests pass in 12 ms
OutApprove ==
  <<
    "C","l","a","i","m",":"," ","W","e"," ","s","h","o","u","l","d"," ","a",
    "p","p","r","o","v","e"," ","t","h","i","s"," ","c","h","a","n","g","e",
    "\n","G","r","o","u","n","d","s",":"," ","a","l","l"," ","t","e","s",
    "t","s"," ","p","a","s","s"," ","i","n"," ","1","2"," ","m","s"
  >>

\* OutReject: Claim: We should reject this change\nWarrant: it calls `eval` on raw input
OutReject ==
  <<
    "C","l","a","i","m",":"," ","W","e"," ","s","h","o","u","l","d"," ","r",
    "e","j","e","c","t"," ","t","h","i","s"," ","c","h","a","n","g","e",
    "\n","W","a","r","r","a","n","t",":"," ","i","t"," ","c","a","l","l",
    "s"," ",Backtick,"e","v","a","l",Backtick," ","o","n"," ","r","a","w",
    " ","i","n","p","u","t"
  >>

\* OutRebut: Claim: perf is wrong here, deny it\nGrounds: see file: src/a.ts:12 now
OutRebut ==
  <<
    "C","l","a","i","m",":"," ","p","e","r","f"," ","i","s"," ","w","r","o",
    "n","g"," ","h","e","r","e",","," ","d","e","n","y"," ","i","t","\n",
    "G","r","o","u","n","d","s",":"," ","s","e","e"," ","f","i","l","e",":",
    " ","s","r","c","/","a",".","t","s",":","1","2"," ","n","o","w"
  >>

\* OutPlain: This change is risky. It adds a lot of work to the hot path!
OutPlain ==
  <<
    "T","h","i","s"," ","c","h","a","n","g","e"," ","i","s"," ","r","i","s",
    "k","y","."," ","I","t"," ","a","d","d","s"," ","a"," ","l","o","t"," ",
    "o","f"," ","w","o","r","k"," ","t","o"," ","t","h","e"," ","h","o","t",
    " ","p","a","t","h","!"
  >>

\* OutNone: no explicit marker and no sentence end in this text at all
OutNone ==
  <<
    "n","o"," ","e","x","p","l","i","c","i","t"," ","m","a","r","k","e","r",
    " ","a","n","d"," ","n","o"," ","s","e","n","t","e","n","c","e"," ","e",
    "n","d"," ","i","n"," ","t","h","i","s"," ","t","e","x","t"," ","a","t",
    " ","a","l","l"
  >>

\* OutTwo: ## Vote\nClaim: We should approve this change now, it looks safe\n\nClaim: We should approve this change now, it looks fine
OutTwo ==
  <<
    "#","#"," ","V","o","t","e","\n","C","l","a","i","m",":"," ","W","e",
    " ","s","h","o","u","l","d"," ","a","p","p","r","o","v","e"," ","t","h",
    "i","s"," ","c","h","a","n","g","e"," ","n","o","w",","," ","i","t"," ",
    "l","o","o","k","s"," ","s","a","f","e","\n","\n","C","l","a","i","m",
    ":"," ","W","e"," ","s","h","o","u","l","d"," ","a","p","p","r","o","v",
    "e"," ","t","h","i","s"," ","c","h","a","n","g","e"," ","n","o","w",",",
    " ","i","t"," ","l","o","o","k","s"," ","f","i","n","e"
  >>

\* OutMarkup: Claim: the check a < b && b > c is "always" true there\nGrounds: see the `cmp` helper
OutMarkup ==
  <<
    "C","l","a","i","m",":"," ","t","h","e"," ","c","h","e","c","k"," ","a",
    " ","<"," ","b"," ","&","&"," ","b"," ",">"," ","c"," ","i","s"," ",
    "\"","a","l","w","a","y","s","\""," ","t","r","u","e"," ","t","h","e",
    "r","e","\n","G","r","o","u","n","d","s",":"," ","s","e","e"," ","t",
    "h","e"," ",Backtick,"c","m","p",Backtick," ","h","e","l","p","e","r"
  >>

\* OutCaching: Claim: Use caching. Grounds: profiling shows 80% cpu time here.
OutCaching ==
  <<
    "C","l","a","i","m",":"," ","U","s","e"," ","c","a","c","h","i","n","g",
    "."," ","G","r","o","u","n","d","s",":"," ","p","r","o","f","i","l","i",
    "n","g"," ","s","h","o","w","s"," ","8","0","%"," ","c","p","u"," ","t",
    "i","m","e"," ","h","e","r","e","."
  >>

\* ClaimCaching: Use caching.
ClaimCaching ==
  <<
    "U","s","e"," ","c","a","c","h","i","n","g","."
  >>

\* FileApi: src/api.ts
FileApi ==
  <<
    "s","r","c","/","a","p","i",".","t","s"
  >>

\* FileUtil: src/util.ts
FileUtil ==
  <<
    "s","r","c","/","u","t","i","l",".","t","s"
  >>

\* FileInterface: src/interface.ts
FileInterface ==
  <<
    "s","r","c","/","i","n","t","e","r","f","a","c","e",".","t","s"
  >>

\* FileNew: src/new.ts
FileNew ==
  <<
    "s","r","c","/","n","e","w",".","t","s"
  >>

\* FileDb: src/api/db.ts
FileDb ==
  <<
    "s","r","c","/","a","p","i","/","d","b",".","t","s"
  >>

\* FileLoop: src/loop.ts
FileLoop ==
  <<
    "s","r","c","/","l","o","o","p",".","t","s"
  >>

\* FileHelpers: src/helpers.ts
FileHelpers ==
  <<
    "s","r","c","/","h","e","l","p","e","r","s",".","t","s"
  >>

\* DiffCurrent: +let a = b + c;\n-d(e);
DiffCurrent ==
  <<
    "+","l","e","t"," ","a"," ","="," ","b"," ","+"," ","c",";","\n","-",
    "d","(","e",")",";"
  >>

\* DiffClose: +let a = b + c;\n-d();
DiffClose ==
  <<
    "+","l","e","t"," ","a"," ","="," ","b"," ","+"," ","c",";","\n","-",
    "d","(",")",";"
  >>

\* DiffNear: +a = b + c + q
DiffNear ==
  <<
    "+","a"," ","="," ","b"," ","+"," ","c"," ","+"," ","q"
  >>

\* DiffThreshold: +a = b + c;\n+w(x, y, z)
DiffThreshold ==
  <<
    "+","a"," ","="," ","b"," ","+"," ","c",";","\n","+","w","(","x",",",
    " ","y",","," ","z",")"
  >>

\* DiffFar: -a(q, r)
DiffFar ==
  <<
    "-","a","(","q",","," ","r",")"
  >>

\* DiffEmpty: 
DiffEmpty == <<>>

\* MessageFix: Fix #12 and #7\n
MessageFix ==
  <<
    "F","i","x"," ","#","1","2"," ","a","n","d"," ","#","7","\n"
  >>

\* MessagePlain: wip\n
MessagePlain ==
  <<
    "w","i","p","\n"
  >>

\* FileScanned: src/run.ts
FileScanned ==
  <<
    "s","r","c","/","r","u","n",".","t","s"
  >>

\* LineExec: exec(cmd + "${userInput}")
LineExec ==
  <<
    "e","x","e","c","(","c","m","d"," ","+"," ","\"","$","{","u","s","e",
    "r","I","n","p","u","t","}","\"",")"
  >>

\* LineDigests: md5(x) + MD5(y); // sha1
LineDigests ==
  <<
    "m","d","5","(","x",")"," ","+"," ","M","D","5","(","y",")",";"," ","/",
    "/"," ","s","h","a","1"
  >>

\* LineQuery: db.run("${id} WHERE a")
LineQuery ==
  <<
    "d","b",".","r","u","n","(","\"","$","{","i","d","}"," ","W","H","E",
    "R","E"," ","a","\"",")"
  >>

\* LineMarkup: el.innerHTML = prefix + userName
LineMarkup ==
  <<
    "e","l",".","i","n","n","e","r","H","T","M","L"," ","="," ","p","r","e",
    "f","i","x"," ","+"," ","u","s","e","r","N","a","m","e"
  >>

\* LineSecret: password = "hunter2hunter2"
LineSecret ==
  <<
    "p","a","s","s","w","o","r","d"," ","="," ","\"","h","u","n","t","e",
    "r","2","h","u","n","t","e","r","2","\""
  >>

\* LinePlain: let a = 1;
LinePlain ==
  <<
    "l","e","t"," ","a"," ","="," ","1",";"
  >>

\* LineSpawn: spawn("${a}") // DES
LineSpawn ==
  <<
    "s","p","a","w","n","(","\"","$","{","a","}","\"",")"," ","/","/"," ",
    "D","E","S"
  >>

\* LineTwoExecs: exec("${a}"); exec("${b}")
LineTwoExecs ==
  <<
    "e","x","e","c","(","\"","$","{","a","}","\"",")",";"," ","e","x","e",
    "c","(","\"","$","{","b","}","\"",")"
  >>

\* OutQualified: Claim: we should approve the new cache layer for all the hot api paths\nQualifier: in most cases\nRebuttal: unless memory is short
OutQualified ==
  <<
    "C","l","a","i","m",":"," ","w","e"," ","s","h","o","u","l","d"," ","a",
    "p","p","r","o","v","e"," ","t","h","e"," ","n","e","w"," ","c","a","c",
    "h","e"," ","l","a","y","e","r"," ","f","o","r"," ","a","l","l"," ","t",
    "h","e"," ","h","o","t"," ","a","p","i"," ","p","a","t","h","s","\n",
    "Q","u","a","l","i","f","i","e","r",":"," ","i","n"," ","m","o","s","t",
    " ","c","a","s","e","s","\n","R","e","b","u","t","t","a","l",":"," ",
    "u","n","l","e","s","s"," ","m","e","m","o","r","y"," ","i","s"," ","s",
    "h","o","r","t"
  >>

\* OutOpposed: Claim: sec says we should reject the new cache layer for all the hot api paths
OutOpposed ==
  <<
    "C","l","a","i","m",":"," ","s","e","c"," ","s","a","y","s"," ","w","e",
    " ","s","h","o","u","l","d"," ","r","e","j","e","c","t"," ","t","h","e",
    " ","n","e","w"," ","c","a","c","h","e"," ","l","a","y","e","r"," ","f",
    "o","r"," ","a","l","l"," ","t","h","e"," ","h","o","t"," ","a","p","i",
    " ","p","a","t","h","s"
  >>

\* ClaimApprove: We should approve this change
ClaimApprove ==
  <<
    "W","e"," ","s","h","o","u","l","d"," ","a","p","p","r","o","v","e"," ",
    "t","h","i","s"," ","c","h","a","n","g","e"
  >>

\* ClaimReject: We should reject this change
ClaimReject ==
  <<
    "W","e"," ","s","h","o","u","l","d"," ","r","e","j","e","c","t"," ","t",
    "h","i","s"," ","c","h","a","n","g","e"
  >>

\* TextQualifier: in most cases
TextQualifier ==
  <<
    "i","n"," ","m","o","s","t"," ","c","a","s","e","s"
  >>

\* TextRebuttal: unless memory is short
TextRebuttal ==
  <<
    "u","n","l","e","s","s"," ","m","e","m","o","r","y"," ","i","s"," ","s",
    "h","o","r","t"
  >>

\* JsonPrNumber: {"prNumber":
JsonPrNumber ==
  <<
    "{","\"","p","r","N","u","m","b","e","r","\"",":"
  >>

\* JsonOptions: ,"options":
JsonOptions ==
  <<
    ",","\"","o","p","t","i","o","n","s","\"",":"
  >>

\* JsonIncludeMetrics: {"includeMetrics":
JsonIncludeMetrics ==
  <<
    "{","\"","i","n","c","l","u","d","e","M","e","t","r","i","c","s","\"",
    ":"
  >>

\* JsonClose: }
JsonClose ==
  <<
    "}"
  >>

\* TextTrue: true
TextTrue ==
  <<
    "t","r","u","e"
  >>

\* TextFalse: false
TextFalse ==
  <<
    "f","a","l","s","e"
  >>


\* ------------------------------------------------------------------------
\* ArgumentMiner: splitIntoSections
\* ------------------------------------------------------------------------

\* /#{1,3}\s+\w+/ : one to three '#', white space, a word
HeaderEnds(t) ==
  [p \in 1..Len(t) |->
     LET h == RunIn(t, p, {"#"})
         s == RunIn(t, h + 1, Space)
         w == RunIn(t, s + 1, WordChar)
     IN  IF h >= p /\ h - p + 1 <= 3 /\ s >= h + 1 /\ w >= s + 1
         THEN w ELSE 0]

\* /\n\n/
BlankLineEnds(t) ==
  [p \in 1..Len(t) |-> IF LitAt(t, p, <<"\n", "\n">>) THEN p + 1 ELSE 0]

\* /---+/ : three or more '-'
RuleEnds(t) ==
  [p \in 1..Len(t) |->
     LET r == RunIn(t, p, {"-"}) IN IF r - p + 1 >= 3 THEN r ELSE 0]

split(t, ends) == SplitAtMatches(t, AllMatches(ends, Len(t)), 1)

\* the markers of splitIntoSections, in the order they are applied
NumMarkers == 3

MarkerEnds(t, k) ==
  CASE k = 1 -> HeaderEnds(t)
    [] k = 2 -> BlankLineEnds(t)
    [] k = 3 -> RuleEnds(t)

\* p.trim().length > 50
MinSectionLength == 50

RECURSIVE SplitEach(_, _)
SplitEach(sections, k) ==
  IF sections = <<>> THEN <<>>
  ELSE SelectParts(split(Head(sections), MarkerEnds(Head(sections), k)),
                   MinSectionLength)
       \o SplitEach(Tail(sections), k)

RECURSIVE SplitByMarkers(_, _)
SplitByMarkers(sections, k) ==
  IF k > NumMarkers THEN sections
  ELSE SplitByMarkers(SplitEach(sections, k), k + 1)

splitIntoSections(output) == SplitByMarkers(<<output>>, 1)

\* ------------------------------------------------------------------------
\* ArgumentMiner: extractEvidence
\* ------------------------------------------------------------------------

\* /`([^`]+)`|```[\s\S]*?```/g
FenceClose(t, q) ==
  LET closes == {c \in q..Len(t) : LitAt(t, c, <<Backtick, Backtick, Backtick>>)}
  IN  IF closes = {} THEN 0 ELSE MinOf(closes) + 2

CodeEnds(t) ==
  [p \in 1..Len(t) |->
     LET r == RunNotIn(t, p + 1, {Backtick})
     IN  IF t[p] # Backtick THEN 0
         ELSE IF r >= p + 1 /\ r + 1 <= Len(t) THEN r + 1
         ELSE IF LitAt(t, p, <<Backtick, Backtick, Backtick>>) THEN FenceClose(t, p + 3)
         ELSE 0]

\* /(?:file|File):?\s*([^\s:]+):(\d+)/g
FileReferenceEnds(t) ==
  [p \in 1..Len(t) |->
     LET a == IF p + 4 <= Len(t) /\ t[p + 4] = ":" THEN p + 5 ELSE p + 4
         s == RunIn(t, a, Space)
         n == RunNotIn(t, s + 1, Space \cup {":"})
         d == RunIn(t, n + 2, Digit)
     IN  IF /\ \/ LitAt(t, p, <<"f", "i", "l", "e">>)
               \/ LitAt(t, p, <<"F", "i", "l", "e">>)
            /\ n >= s + 1
            /\ n + 1 <= Len(t) /\ t[n + 1] = ":"
            /\ d >= n + 2
         THEN d ELSE 0]

\* /(\d+(?:\.\d+)?)\s*(%|ms|MB|ops\/sec)/g
MetricUnits ==
  {<<"%">>, <<"m", "s">>, <<"M", "B">>, <<"o", "p", "s", "/", "s", "e", "c">>}

MetricEnds(t) ==
  [p \in 1..Len(t) |->
     LET d  == RunIn(t, p, Digit)
         f  == RunIn(t, d + 2, Digit)
         d2 == IF d + 1 <= Len(t) /\ t[d + 1] = "." /\ f >= d + 2 THEN f ELSE d
         s  == RunIn(t, d2 + 1, Space)
         us == {u \in MetricUnits : LitAt(t, s + 1, u)}
     IN  IF d >= p /\ us # {}
         THEN s + Len(CHOOSE u \in us : TRUE) ELSE 0]

\* /\[([^\]]+)\]\(([^)]+)\)/g
CitationEnds(t) ==
  [p \in 1..Len(t) |->
     LET r  == RunNotIn(t, p + 1, {"]"})
         r2 == RunNotIn(t, r + 3, {")"})
     IN  IF /\ t[p] = "["
            /\ r >= p + 1
            /\ LitAt(t, r + 1, <<"]", "(">>)
            /\ r2 >= r + 3
            /\ r2 + 1 <= Len(t)
         THEN r2 + 1 ELSE 0]

\* /(?:commit|Commit)\s+([a-f0-9]{7,40})/g
HashMinLength == 7

HashMaxLength == 40

HistoricalEnds(t) ==
  [p \in 1..Len(t) |->
     LET s == RunIn(t, p + 6, Space)
         h == RunIn(t, s + 1, HexChar)
     IN  IF /\ \/ LitAt(t, p, <<"c", "o", "m", "m", "i", "t">>)
               \/ LitAt(t, p, <<"C", "o", "m", "m", "i", "t">>)
            /\ s >= p + 6
            /\ h - s >= HashMinLength
         THEN Min(h, s + HashMaxLength) ELSE 0]

matchAll(t, ends) == AllMatches(ends, Len(t))

\* One Evidence per match: the type and the confidence (in hundredths) are
\* what the engine reads afterwards.
EvidenceOf(ms, type, confidence) ==
  [i \in 1..Len(ms) |-> [type |-> type, confidence |-> confidence]]

extractEvidence(text) ==
  EvidenceOf(matchAll(text, CodeEnds(text)), "code", 90)
  \o EvidenceOf(matchAll(text, FileReferenceEnds(text)), "code", 95)
  \o EvidenceOf(matchAll(text, MetricEnds(text)), "metric", 85)
  \o EvidenceOf(matchAll(text, CitationEnds(text)), "external", 80)
  \o EvidenceOf(matchAll(text, HistoricalEnds(text)), "historical", 90)

\* ------------------------------------------------------------------------
\* ArgumentMiner: extractToulminComponents, parseAgentOutput
\* ------------------------------------------------------------------------

\* [:\s]
FieldSeparator == Space \cup {":"}

\* position after the keyword kw (with the optional 's' of /grounds?/) when
\* the lower-cased text lt has it at p, else 0
AfterKeyword(lt, p, kw, optionalS) ==
  LET a == p + Len(kw)
  IN  IF ~LitAt(lt, p, kw) THEN 0
      ELSE IF optionalS /\ a <= Len(lt) /\ lt[a] = "s" THEN a + 1
      ELSE a

\* /kw[:\s]+([^\n]+)/ with the keyword ending before a: first position of
\* the capture, 0 when there is no match.  [:\s]+ is greedy and gives
\* characters back until the capture can start on a character that is not
\* a newline.
FieldCaptureStart(t, a) ==
  LET r  == RunIn(t, a, FieldSeparator)
      gs == {g \in (a + 1)..(r + 1) : g <= Len(t) /\ t[g] # "\n"}
  IN  IF a = 0 \/ gs = {} THEN 0 ELSE MaxOf(gs)

FieldEnds(t, kw, optionalS) ==
  LET lt == toLowerCase(t)
  IN  [p \in 1..Len(t) |->
         LET g == FieldCaptureStart(t, AfterKeyword(lt, p, kw, optionalS))
         IN  IF g = 0 THEN 0 ELSE RunNotIn(t, g, {"\n"})]

\* match[1].trim() of a match m of the field pattern
FieldCapture(t, m, kw, optionalS) ==
  trim(SubSeq(t,
              FieldCaptureStart(t, AfterKeyword(toLowerCase(t), m.first, kw,
                                                optionalS)),
              m.last))

\* [.!?]
SentenceEnd == {".", "!", "?"}

\* /[^.!?]+[.!?]+/g
SentenceEnds(t) ==
  [p \in 1..Len(t) |->
     LET b == RunNotIn(t, p, SentenceEnd)
         e == RunIn(t, b + 1, SentenceEnd)
     IN  IF b >= p /\ e >= b + 1 THEN e ELSE 0]

\* text.match(regex) without the g flag: the first match, as a sequence of
\* at most one match
FirstMatch(matchEnd, n) ==
  LET starts == {q \in 1..n : matchEnd[q] # 0}
      q      == MinOf(starts)
  IN  IF starts = {} THEN <<>> ELSE <<[first |-> q, last |-> matchEnd[q]]>>

match(t, ends) == FirstMatch(ends, Len(t))

\* an argument that is created already scored
ArgumentPrescored(id, agentName, claim, grounds, warrant, backing) ==
  [id |-> id, agent |-> agentName, claim |-> claim, grounds |-> grounds,
   warrant |-> warrant, backing |-> backing, qualifier |-> <<>>,
   rebuttal |-> <<>>, strength |-> 500000]

\* the Argument that extractToulminComponents returns: qualifier is '' and
\* rebuttal is undefined, whatever the section says
Argument(id, agentName, claim, grounds, warrant, backing) ==
  [id        |-> id,
   agent     |-> agentName,
   claim     |-> claim,
   grounds   |-> grounds,
   warrant   |-> warrant,
   backing   |-> backing,
   qualifier |-> <<>>,
   rebuttal  |-> <<>>,
   strength  |-> 0]

\* A value of type T | null is the sequence of at most one T.  An absent
\* optional string (rebuttal) is the empty string: the source stores
\* rebuttal || undefined, so an empty rebuttal never occurs.  id stands for
\* the value of crypto.randomUUID().
extractToulminComponents(section, agentName, id) ==
  LET claimMatch   == match(section, FieldEnds(section, KwClaim, FALSE))
      explicit     == IF claimMatch # <<>>
                      THEN FieldCapture(section, claimMatch[1], KwClaim, FALSE)
                      ELSE <<>>
      groundsMs    == matchAll(section, FieldEnds(section, KwGround, TRUE))
      grounds      == [i \in 1..Len(groundsMs) |->
                         FieldCapture(section, groundsMs[i], KwGround, TRUE)]
      warrantMatch == match(section, FieldEnds(section, KwWarrant, FALSE))
      warrant      == IF warrantMatch # <<>>
                      THEN FieldCapture(section, warrantMatch[1], KwWarrant, FALSE)
                      ELSE <<>>
      sentences    == matchAll(section, SentenceEnds(section))
      claim        == IF explicit # <<>> THEN explicit
                      ELSE IF Len(sentences) > 0
                      THEN trim(SubSeq(section, sentences[1].first,
                                       sentences[1].last))
                      ELSE <<>>
  IN  IF claim = <<>> THEN <<>>
      ELSE <<Argument(id, agentName, claim, grounds, warrant,
                      extractEvidence(section))>>

\* the arguments parseAgentOutput returns and stores, the k-th getting the
\* k-th fresh identifier after used
RECURSIVE ParseSections(_, _, _)
ParseSections(sections, agentName, used) ==
  IF sections = <<>> THEN <<>>
  ELSE LET argument == extractToulminComponents(Head(sections), agentName,
                                                used + 1)
       IN  argument
           \o ParseSections(Tail(sections), agentName, used + Len(argument))

parseAgentOutput(agentName, output, used) ==
  ParseSections(splitIntoSections(output), agentName, used)

\* ------------------------------------------------------------------------
\* State
\* ------------------------------------------------------------------------

\* ArgumentMiner
VARIABLES
  arguments,   \* this.arguments: the stored arguments, in insertion order
  graph,       \* this.graph: [nodes, edges]
  call,        \* the latest call of a public method: [op, in, out, repeated]
  debate       \* the agents whose outputs the client parses

minerVars == <<arguments, graph, call, debate>>

\* ContextBuilder.gatherPRContext
VARIABLES
  prData,      \* what gatherPRContext fetched: [files, securityScan, options]
  codeMetrics, \* codeMetrics of gatherPRContext: absent or one record
  impact,      \* analyzePerformanceImpact: its locals and the next change
  assessment,  \* riskAssessment of the context: absent or one record
  gather       \* where gatherPRContext is

riskVars == <<prData, codeMetrics, impact, assessment, gather>>

\* EvidenceExtractor.findSimilarChanges
VARIABLES
  repo,     \* the call's input and the repository: [diff, commits]
  search,   \* the locals of findSimilarChanges: [next, matches, failed]
  similar,  \* what findSimilarChanges returned: absent or one list
  finding   \* where findSimilarChanges is

historyVars == <<repo, search, similar, finding>>

\* the callers of the two similarity measures
VARIABLES
  texts,   \* the two texts a caller holds
  scores   \* the calls made so far: [of, text1, text2, similarity]

similarityVars == <<texts, scores>>

\* EvidenceExtractor.scanSecurityIssues
VARIABLES
  code,     \* the arguments of the call: [code, filename]
  lineScan, \* the locals of scanSecurityIssues: [lineNum, issues]
  scanned,  \* what scanSecurityIssues returned: absent or one list
  scanning  \* where scanSecurityIssues is

scanVars == <<code, lineScan, scanned, scanning>>

\* ContextBuilder.buildContext
VARIABLES
  heads,      \* the head commit of each pull request, counted from 1
  clock,      \* Date.now(), in milliseconds since the first state
  cacheFiles, \* the files of .context-cache: [key, content, timestamp]
  built       \* the latest buildContext call: its arguments, the head commit
              \* of the pull request at the call, and what it returned

cacheVars == <<heads, clock, cacheFiles, built>>

vars ==
  <<minerVars, riskVars, historyVars, similarityVars, scanVars, cacheVars>>

\* what the steps of one component leave alone
notMiner == <<riskVars, historyVars, similarityVars, scanVars, cacheVars>>

notRisk == <<minerVars, historyVars, similarityVars, scanVars, cacheVars>>

notHistory == <<minerVars, riskVars, similarityVars, scanVars, cacheVars>>

notSimilarity == <<minerVars, riskVars, historyVars, scanVars, cacheVars>>

notScan == <<minerVars, riskVars, historyVars, similarityVars, cacheVars>>

notCache == <<minerVars, riskVars, historyVars, similarityVars, scanVars>>


\* A number of the source that is a ratio of two counts is kept as the
\* fraction [num, den]; 0/0 is JavaScript's NaN.
Fraction(n, d) == [num |-> n, den |-> d]

\* Strengths of arguments are kept in millionths.
One == 1000000

\* ------------------------------------------------------------------------
\* ArgumentMiner: buildArgumentGraph
\* ------------------------------------------------------------------------

classifyArgument(argument) ==
  LET claim == toLowerCase(argument.claim)
  IN  IF \E phrase \in negativePhrases : includes(claim, phrase) THEN "attack"
      ELSE IF \E phrase \in positivePhrases : includes(claim, phrase)
      THEN "support"
      ELSE "neutral"

\* /\s+/
WhitespaceEnds(t) ==
  [p \in 1..Len(t) |->
     LET r == RunIn(t, p, Space) IN IF r >= p THEN r ELSE 0]

\* new Set(text.toLowerCase().split(/\s+/))
Tokens(text) ==
  LET parts == split(toLowerCase(text), WhitespaceEnds(toLowerCase(text)))
  IN  {parts[i] : i \in 1..Len(parts)}

calculateSimilarity(text1, text2) ==
  LET tokens1      == Tokens(text1)
      tokens2      == Tokens(text2)
      intersection == tokens1 \cap tokens2
      union        == tokens1 \cup tokens2
  IN  IF Cardinality(union) > 0
      THEN Fraction(Cardinality(intersection), Cardinality(union))
      ELSE Fraction(0, 1)

areConflicting(arg1, arg2) ==
  LET claim1 == toLowerCase(arg1.claim)
      claim2 == toLowerCase(arg2.claim)
  IN  \E k \in 1..Len(opposites) :
        LET word1 == opposites[k][1]
            word2 == opposites[k][2]
        IN  \/ includes(claim1, word1) /\ includes(claim2, word2)
            \/ includes(claim1, word2) /\ includes(claim2, word1)

\* length of the prefix of arg1.claim that a rebuttal must quote
ClaimPrefixLength == 20

\* similarity > 0.7
SupportThreshold == Fraction(7, 10)

RebutStrength == Fraction(8, 10)

UndermineStrength == Fraction(7, 10)

Greater(x, y) == x.num * y.den > y.num * x.den

\* an analyzeRelationship whose undermines edge runs from the later
\* argument to the earlier one
analyzeRelationshipUnderminesBack(arg1, arg2) ==
  LET similarity == calculateSimilarity(arg1.claim, arg2.claim)
  IN  IF \/ includes(arg2.claim, arg1.agent)
         \/ /\ arg2.rebuttal # <<>>
            /\ includes(arg2.rebuttal, substring(arg1.claim, 0, ClaimPrefixLength))
      THEN <<[from |-> arg2.id, to |-> arg1.id, type |-> "rebuts",
              strength |-> RebutStrength]>>
      ELSE IF Greater(similarity, SupportThreshold)
      THEN <<[from |-> arg1.id, to |-> arg2.id, type |-> "supports",
              strength |-> similarity]>>
      ELSE IF areConflicting(arg1, arg2)
      THEN <<[from |-> arg2.id, to |-> arg1.id, type |-> "undermines",
              strength |-> UndermineStrength]>>
      ELSE <<>>

\* an analyzeRelationship that tries the supports rule before the rebuts
\* rule
analyzeRelationshipSupportsFirst(arg1, arg2) ==
  LET similarity == calculateSimilarity(arg1.claim, arg2.claim)
  IN  IF Greater(similarity, SupportThreshold)
      THEN <<[from |-> arg1.id, to |-> arg2.id, type |-> "supports",
              strength |-> similarity]>>
      ELSE IF \/ includes(arg2.claim, arg1.agent)
              \/ /\ arg2.rebuttal # <<>>
                 /\ includes(arg2.rebuttal, substring(arg1.claim, 0, ClaimPrefixLength))
      THEN <<[from |-> arg2.id, to |-> arg1.id, type |-> "rebuts",
              strength |-> RebutStrength]>>
      ELSE IF areConflicting(arg1, arg2)
      THEN <<[from |-> arg1.id, to |-> arg2.id, type |-> "undermines",
              strength |-> UndermineStrength]>>
      ELSE <<>>

\* an analyzeRelationship whose rebuts rule also holds when the earlier
\* claim names the persona of the later argument
analyzeRelationshipEitherNames(arg1, arg2) ==
  LET similarity == calculateSimilarity(arg1.claim, arg2.claim)
  IN  IF \/ includes(arg2.claim, arg1.agent)
         \/ includes(arg1.claim, arg2.agent)
         \/ /\ arg2.rebuttal # <<>>
            /\ includes(arg2.rebuttal, substring(arg1.claim, 0, ClaimPrefixLength))
      THEN <<[from |-> arg2.id, to |-> arg1.id, type |-> "rebuts",
              strength |-> RebutStrength]>>
      ELSE IF Greater(similarity, SupportThreshold)
      THEN <<[from |-> arg1.id, to |-> arg2.id, type |-> "supports",
              strength |-> similarity]>>
      ELSE IF areConflicting(arg1, arg2)
      THEN <<[from |-> arg1.id, to |-> arg2.id, type |-> "undermines",
              strength |-> UndermineStrength]>>
      ELSE <<>>

\* the edge for the pair (arg1 earlier, arg2 later), or none
analyzeRelationship(arg1, arg2) ==
  LET similarity == calculateSimilarity(arg1.claim, arg2.claim)
  IN  IF \/ includes(arg2.claim, arg1.agent)
         \/ /\ arg2.rebuttal # <<>>
            /\ includes(arg2.rebuttal,
                        substring(arg1.claim, 0, ClaimPrefixLength))
      THEN <<[from |-> arg2.id, to |-> arg1.id, type |-> "rebuts",
              strength |-> RebutStrength]>>
      ELSE IF Greater(similarity, SupportThreshold)
      THEN <<[from |-> arg1.id, to |-> arg2.id, type |-> "supports",
              strength |-> similarity]>>
      ELSE IF areConflicting(arg1, arg2)
      THEN <<[from |-> arg1.id, to |-> arg2.id, type |-> "undermines",
              strength |-> UndermineStrength]>>
      ELSE <<>>

\* ------------------------------------------------------------------------
\* The inputs of the model, and the pure functions of the miner tabulated
\* over them (each is computed once)
\* ------------------------------------------------------------------------

\* most arguments the miner stores
MaxArgs == 2

\* (agentName, output) pairs given to parseAgentOutput
ParseInputs ==
  {<<AgentSec, OutApprove>>, <<AgentPerf, OutReject>>, <<AgentSec, OutRebut>>,
   <<AgentPerf, OutPlain>>, <<AgentSec, OutNone>>, <<AgentPerf, OutTwo>>,
   <<AgentQa, OutMarkup>>, <<AgentPerf, OutCaching>>}

\* (agentName, output) pairs of two agents that dispute one change
DisputeInputs ==
  {<<AgentSec, OutQualified>>, <<AgentPerf, OutOpposed>>,
   <<AgentSec, OutRebut>>, <<AgentPerf, OutReject>>}

\* the outputs a client parses in each debate
DebateInputs == [review |-> ParseInputs, dispute |-> DisputeInputs]

\* parseAgentOutput(agentName, output) when used arguments are stored
ParseTable ==
  [input \in ParseInputs \cup DisputeInputs, used \in 0..MaxArgs |->
     parseAgentOutput(input[1], input[2], used)]

\* every argument the miner can store
StoredArguments ==
  UNION {{ParseTable[k][i] : i \in 1..Len(ParseTable[k])} :
           k \in DOMAIN ParseTable}

\* the argument as parseAgentOutput stored it: neither classifyArgument nor
\* analyzeRelationship reads the strength
AsStored(argument) == [argument EXCEPT !.strength = 0]

Classification == [a \in StoredArguments |-> classifyArgument(a)]

Relationship ==
  [arg1 \in StoredArguments, arg2 \in StoredArguments |->
     analyzeRelationship(arg1, arg2)]

\* the edges pushed by the double loop from the pair (i, j) on
RECURSIVE PairEdges(_, _, _)
PairEdges(args, i, j) ==
  IF i > Len(args) THEN <<>>
  ELSE IF j > Len(args) THEN PairEdges(args, i + 1, i + 2)
  ELSE Relationship[AsStored(args[i]), AsStored(args[j])]
       \o PairEdges(args, i, j + 1)

\* a build that appends to the edges of the graph instead of replacing them
buildArgumentGraphKeepingEdges(args) ==
  [nodes |-> [i \in 1..Len(args) |->
                [id |-> args[i].id, type |-> Classification[AsStored(args[i])]]],
   edges |-> graph.edges \o PairEdges(args, 1, 2)]

\* a build that appends to the nodes of the graph instead of replacing them
buildArgumentGraphKeepingNodes(args) ==
  [nodes |-> graph.nodes
             \o [i \in 1..Len(args) |->
                   [id |-> args[i].id,
                    type |-> Classification[AsStored(args[i])]]],
   edges |-> PairEdges(args, 1, 2)]

\* the graph that buildArgumentGraph(args) assigns to this.graph and
\* returns; a node refers to its argument by the argument's id
buildArgumentGraph(args) ==
  [nodes |-> [i \in 1..Len(args) |->
                [id |-> args[i].id, type |-> Classification[AsStored(args[i])]]],
   edges |-> PairEdges(args, 1, 2)]

\* ------------------------------------------------------------------------
\* ArgumentMiner: calculateArgumentStrength, generateMetrics
\* ------------------------------------------------------------------------

\* weights[e.type], in hundredths
EvidenceWeight ==
  [code |-> 90, metric |-> 85, documentation |-> 70, historical |-> 80,
   external |-> 60]

RECURSIVE SumOver(_, _)
SumOver(f, n) == IF n = 0 THEN 0 ELSE f[n] + SumOver(f, n - 1)

\* in millionths; weight and confidence are hundredths
calculateEvidenceQuality(evidence) ==
  IF Len(evidence) = 0 THEN 0
  ELSE LET totalQuality ==
             SumOver([i \in 1..Len(evidence) |->
                        EvidenceWeight[evidence[i].type]
                        * evidence[i].confidence * 100],
                     Len(evidence))
       IN  Min(One, totalQuality \div Len(evidence))

Count(edges, Test(_)) == Len(SelectSeq(edges, Test))

\* the sum of the components and modifiers, before it is clamped
RawStrength(argument) ==
  LET hasGrounds     == IF Len(argument.grounds) > 0 THEN 200000 ELSE 0
      groundsQuality == Min(Len(argument.grounds) * 100000, 300000)
      hasWarrant     == IF argument.warrant # <<>> THEN 200000 ELSE 0
      hasEvidence    == IF Len(argument.backing) > 0 THEN 100000 ELSE 0
      evidenceQuality == calculateEvidenceQuality(argument.backing) \div 5
      qualified      == IF argument.qualifier # <<>> THEN 50000 ELSE 0
      rebutted       == IF argument.rebuttal # <<>> THEN 50000 ELSE 0
      supportingEdges ==
        Count(graph.edges,
              LAMBDA e : e.to = argument.id /\ e.type = "supports")
      attackingEdges ==
        Count(graph.edges,
              LAMBDA e : e.to = argument.id
                         /\ (e.type = "rebuts" \/ e.type = "undermines"))
  IN  hasGrounds + groundsQuality + hasWarrant + hasEvidence
      + evidenceQuality + qualified + rebutted
      + supportingEdges * 50000 - attackingEdges * 50000

\* a strength without the upper clamp
calculateArgumentStrengthUnclamped(argument) == Max(0, RawStrength(argument))

\* a strength that is added to the strength the argument had
calculateArgumentStrengthAccumulating(argument) ==
  Max(0, Min(One, argument.strength + RawStrength(argument)))

calculateArgumentStrength(argument) == Max(0, Min(One, RawStrength(argument)))

truncate(text, maxLength) ==
  IF Len(text) <= maxLength THEN text
  ELSE substring(text, 0, maxLength - 3) \o Ellipsis

IsConflict(edge) == edge.type = "rebuts" \/ edge.type = "undermines"

\* graph.nodes.find(n => n.id === id), as a sequence of at most one node
FindNode(id) == SelectSeq(graph.nodes, LAMBDA n : n.id = id)

\* the argument object with this id (a node's argument)
ArgumentOf(id) ==
  LET i == CHOOSE k \in 1..Len(arguments) : arguments[k].id = id
  IN  arguments[i]

ConflictFragmentLength == 30

RECURSIVE ConflictLines(_)
ConflictLines(edges) ==
  IF edges = <<>> THEN <<>>
  ELSE LET edge     == Head(edges)
           fromNode == FindNode(edge.from)
           toNode   == FindNode(edge.to)
           from     == ArgumentOf(fromNode[1].id)
           to       == ArgumentOf(toNode[1].id)
       IN  (IF IsConflict(edge) /\ fromNode # <<>> /\ toNode # <<>>
            THEN <<from.agent \o <<" ", "v", "s", " ">> \o to.agent
                   \o <<":", " ">>
                   \o truncate(from.claim, ConflictFragmentLength)>>
            ELSE <<>>)
           \o ConflictLines(Tail(edges))

findConflictPoints == ConflictLines(graph.edges)

\* a consensus level without the neutral default
calculateConsensusLevelWithoutDefault ==
  LET supportCount  == Count(graph.edges, LAMBDA e : e.type = "supports")
      conflictCount == Count(graph.edges, IsConflict)
      totalEdges    == supportCount + conflictCount
  IN  IF Len(graph.nodes) = 0 \/ totalEdges = 0 THEN Fraction(0, 1)
      ELSE Fraction(supportCount, totalEdges)

\* a consensus level that does not count the undermines edges
calculateConsensusLevelWithoutUndermines ==
  LET supportCount  == Count(graph.edges, LAMBDA e : e.type = "supports")
      conflictCount == Count(graph.edges, LAMBDA e : e.type = "rebuts")
      totalEdges    == supportCount + conflictCount
  IN  IF Len(graph.nodes) = 0 THEN Fraction(0, 1)
      ELSE IF totalEdges = 0 THEN Fraction(1, 2)
      ELSE Fraction(supportCount, totalEdges)

calculateConsensusLevel ==
  LET supportCount  == Count(graph.edges, LAMBDA e : e.type = "supports")
      conflictCount == Count(graph.edges, IsConflict)
      totalEdges    == supportCount + conflictCount
  IN  IF Len(graph.nodes) = 0 THEN Fraction(0, 1)
      ELSE IF totalEdges = 0 THEN Fraction(1, 2)
      ELSE Fraction(supportCount, totalEdges)

\* [...all].sort((a, b) => b.strength - a.strength): stable, descending
RECURSIVE InsertByStrength(_, _)
InsertByStrength(sorted, a) ==
  IF sorted = <<>> THEN <<a>>
  ELSE IF Head(sorted).strength >= a.strength
  THEN <<Head(sorted)>> \o InsertByStrength(Tail(sorted), a)
  ELSE <<a>> \o sorted

RECURSIVE SortByStrength(_, _)
SortByStrength(args, n) ==
  IF n = 0 THEN <<>>
  ELSE InsertByStrength(SortByStrength(args, n - 1), args[n])

Reverse(s) == [i \in 1..Len(s) |-> s[Len(s) + 1 - i]]

Ids(args) == [i \in 1..Len(args) |-> args[i].id]

TopCount == 3

\* the stored arguments after the rescoring loop of generateMetrics
Rescored(args) ==
  [i \in 1..Len(args) |->
     [args[i] EXCEPT !.strength = calculateArgumentStrength(args[i])]]

\* the ArgumentMetrics generateMetrics returns; arguments are named by id,
\* and scored lists the arguments whose strength the loop assigned
generateMetrics ==
  LET allArguments     == Rescored(arguments)
      sortedByStrength == SortByStrength(allArguments, Len(allArguments))
      n                == Len(sortedByStrength)
  IN  [scored             |-> Ids(allArguments),
       totalArguments     |-> Len(allArguments),
       averageStrength    |->
         Fraction(SumOver([i \in 1..Len(allArguments) |->
                             allArguments[i].strength],
                          Len(allArguments)),
                  Len(allArguments)),
       consensusLevel     |-> calculateConsensusLevel,
       conflictPoints     |-> findConflictPoints,
       strongestArguments |-> Ids(SubSeq(sortedByStrength, 1, Min(TopCount, n))),
       weakestArguments   |->
         Ids(Reverse(SubSeq(sortedByStrength, Max(1, n - TopCount + 1), n)))]

\* ------------------------------------------------------------------------
\* ArgumentMiner: exportGraphML
\* ------------------------------------------------------------------------

DigitText == <<"0", "1", "2", "3", "4", "5", "6", "7", "8", "9">>

\* String(n) for a natural number n
RECURSIVE NaturalText(_)
NaturalText(n) ==
  IF n < 10 THEN <<DigitText[n + 1]>>
  ELSE NaturalText(n \div 10) \o <<DigitText[(n % 10) + 1]>>

\* the decimals of a number below 1 given in millionths, without the zeros
\* at their end
RECURSIVE DecimalsText(_, _)
DecimalsText(millionths, places) ==
  IF millionths % 10 = 0 /\ places > 1
  THEN DecimalsText(millionths \div 10, places - 1)
  ELSE LET digits == NaturalText(millionths)
       IN  [i \in 1..(places - Len(digits)) |-> "0"] \o digits

\* String(x) for a number x >= 0 given in millionths: its digits down to
\* the sixth decimal
NumberText(millionths) ==
  IF millionths % One = 0 THEN NaturalText(millionths \div One)
  ELSE NaturalText(millionths \div One) \o <<".">>
       \o DecimalsText(millionths % One, 6)

\* the text of an identifier
IdText(id) == UuidPrefix \o NaturalText(id)

\* parts.join(separator)
RECURSIVE Join(_, _)
Join(parts, separator) ==
  IF parts = <<>> THEN <<>>
  ELSE IF Len(parts) = 1 THEN parts[1]
  ELSE parts[1] \o separator \o Join(Tail(parts), separator)

NodeElement(node) ==
  LET argument == ArgumentOf(node.id)
  IN  NodeTemplate[1] \o IdText(node.id)
      \o NodeTemplate[2] \o truncate(argument.claim, 50)
      \o NodeTemplate[3] \o argument.agent
      \o NodeTemplate[4] \o NumberText(argument.strength)
      \o NodeTemplate[5]

\* the element of the edge at index i, counted from 0
EdgeElement(edge, i) ==
  EdgeTemplate[1] \o NaturalText(i)
  \o EdgeTemplate[2] \o IdText(edge.from)
  \o EdgeTemplate[3] \o IdText(edge.to)
  \o EdgeTemplate[4] \o EdgeTypeText[edge.type]
  \o EdgeTemplate[5]
  \o NumberText((edge.strength.num * One) \div edge.strength.den)
  \o EdgeTemplate[6]

exportGraphML ==
  GraphMLTemplate[1]
  \o Join([i \in 1..Len(graph.nodes) |-> NodeElement(graph.nodes[i])],
          <<"\n">>)
  \o GraphMLTemplate[2]
  \o Join([i \in 1..Len(graph.edges) |-> EdgeElement(graph.edges[i], i - 1)],
          <<"\n">>)
  \o GraphMLTemplate[3]

\* ------------------------------------------------------------------------
\* ArgumentMiner: the calls of a client
\* ------------------------------------------------------------------------

\* the argument lists given to buildArgumentGraph: stored arguments, each at
\* most once, in any order
RECURSIVE ListsOver(_, _)
ListsOver(S, n) ==
  IF n = 0 THEN {<<>>}
  ELSE LET shorter == ListsOver(S, n - 1)
       IN  shorter \cup
           {Append(pair[1], pair[2]) : pair \in
              {pr \in shorter \X S :
                 Len(pr[1]) = n - 1 /\ \A i \in 1..Len(pr[1]) : pr[1][i] # pr[2]}}

NewGraph == [nodes |-> <<>>, edges |-> <<>>]

\* call records the latest call of a client: the method, its argument, what
\* it returned, and whether the call before it was the same method with the
\* same argument
Repeats(op, in) == call.op = op /\ call.in = in

NewMiner ==
  /\ arguments = <<>>
  /\ graph = NewGraph
  /\ call = [op |-> "new", in |-> <<>>, out |-> <<>>, repeated |-> FALSE]

\* a new ArgumentMiner, and the agents of a review
MinerInit == NewMiner /\ debate = "review"

\* a new ArgumentMiner, and the agents of a dispute
DisputeInit == NewMiner /\ debate = "dispute"

ParseAgentOutput ==
  \E input \in DebateInputs[debate] :
    LET parsed == ParseTable[input, Len(arguments)]
    IN  /\ Len(arguments) + Len(parsed) <= MaxArgs
        /\ arguments' = arguments \o parsed
        /\ call' = [op |-> "parseAgentOutput", in |-> input,
                    out |-> Ids(parsed),
                    repeated |-> Repeats("parseAgentOutput", input)]
        /\ UNCHANGED <<graph, debate, notMiner>>

BuildArgumentGraph ==
  \E ids \in ListsOver(1..Len(arguments), Len(arguments)) :
    /\ graph' = buildArgumentGraph([i \in 1..Len(ids) |-> ArgumentOf(ids[i])])
    /\ call' = [op |-> "buildArgumentGraph", in |-> ids, out |-> <<>>,
                repeated |-> Repeats("buildArgumentGraph", ids)]
    /\ UNCHANGED <<arguments, debate, notMiner>>

GenerateMetrics ==
  /\ arguments' = Rescored(arguments)
  /\ call' = [op |-> "generateMetrics", in |-> <<>>,
              out |-> generateMetrics,
              repeated |-> Repeats("generateMetrics", <<>>)]
  /\ UNCHANGED <<graph, debate, notMiner>>

ExportGraphML ==
  /\ call' = [op |-> "exportGraphML", in |-> <<>>, out |-> exportGraphML,
              repeated |-> Repeats("exportGraphML", <<>>)]
  /\ UNCHANGED <<arguments, graph, debate, notMiner>>

MinerNext ==
  \/ ParseAgentOutput
  \/ BuildArgumentGraph
  \/ GenerateMetrics
  \/ ExportGraphML

\* ------------------------------------------------------------------------
\* ContextBuilder: gatherPRContext and its risk assessment
\* ------------------------------------------------------------------------

\* the files of a pull request considered at most
MaxFiles == 3

\* A changed file: the entry of pulls.listFiles and what the analyses read
\* from its content in the working tree.
ChangedFile(filename, status, antiPatterns, analysis, codeSmells) ==
  [filename |-> filename, status |-> status, antiPatterns |-> antiPatterns,
   analysis |-> analysis, codeSmells |-> codeSmells]

\* what detectPerformanceAntiPatterns returns
AntiPatterns(nestedLoops, synchronousIO, largeArrayOperations, nPlusOne) ==
  [nestedLoops |-> nestedLoops, synchronousIO |-> synchronousIO,
   largeArrayOperations |-> largeArrayOperations,
   nPlusOneQueries |-> nPlusOne]

\* what analyzeCodeComplexity returns for a content with these numbers of
\* matches of its four patterns
Analysis(conditions, loops, switches, functions) ==
  [cyclomatic |-> conditions + loops + switches + 1,
   cognitive |-> conditions + loops * 2 + switches * 3,
   functions |-> functions]

\* the files a pull request is made of: each path occurs once in a pull
\* request
FileKinds ==
  {ChangedFile(FileApi, "modified", AntiPatterns(0, 0, 1, FALSE),
               Analysis(5, 2, 2, 1), 2),
   ChangedFile(FileUtil, "modified", AntiPatterns(3, 1, 1, TRUE),
               Analysis(20, 10, 9, 2), 5),
   ChangedFile(FileInterface, "deleted", AntiPatterns(3, 1, 1, TRUE),
               Analysis(0, 0, 0, 0), 0),
   ChangedFile(FileNew, "added", AntiPatterns(2, 0, 0, FALSE),
               Analysis(0, 0, 0, 0), 0),
   ChangedFile(FileDb, "modified", AntiPatterns(4, 2, 1, TRUE),
               Analysis(15, 8, 6, 1), 12),
   ChangedFile(FileLoop, "added", AntiPatterns(3, 0, 0, TRUE),
               Analysis(9, 6, 4, 4), 1),
   ChangedFile(FileHelpers, "modified", AntiPatterns(0, 0, 0, FALSE),
               Analysis(0, 0, 0, 2), 0)}

\* what getSecurityScan returns: absent when the request fails
SecurityScan(critical, high, medium, low) ==
  [vulnerabilities |-> critical + high + medium + low, critical |-> critical,
   high |-> high, medium |-> medium, low |-> low]

SecurityScans ==
  {<<>>, <<SecurityScan(0, 0, 0, 0)>>, <<SecurityScan(2, 0, 1, 0)>>,
   <<SecurityScan(0, 1, 0, 1)>>, <<SecurityScan(3, 1, 0, 1)>>}

FileLists == ListsOver(FileKinds, MaxFiles)

\* Math.log of the integers from 1 on, in millionths
NaturalLog ==
  <<0, 693147, 1098612, 1386294, 1609438, 1791759, 1945910, 2079442,
    2197225, 2302585, 2397895, 2484907, 2564949, 2639057, 2708050,
    2772589, 2833213, 2890372, 2944439, 2995732, 3044522, 3091042,
    3135494, 3178054, 3218876, 3258097, 3295837, 3332205, 3367296,
    3401197, 3433987, 3465736, 3496508, 3526361, 3555348, 3583519,
    3610918, 3637586, 3663562, 3688879, 3713572, 3737670, 3761200,
    3784190, 3806662, 3828641, 3850148, 3871201, 3891820, 3912023,
    3931826, 3951244, 3970292, 3988984, 4007333, 4025352, 4043051,
    4060443, 4077537, 4094345, 4110874, 4127134, 4143135, 4158883,
    4174387, 4189655, 4204693, 4219508, 4234107, 4248495, 4262680,
    4276666, 4290459, 4304065, 4317488, 4330733, 4343805, 4356709,
    4369448, 4382027, 4394449, 4406719, 4418841, 4430817, 4442651,
    4454347, 4465908, 4477337, 4488636, 4499810, 4510860, 4521789,
    4532599, 4543295, 4553877, 4564348, 4574711, 4584967, 4595120,
    4605170, 4615121, 4624973, 4634729, 4644391, 4653960, 4663439,
    4672829, 4682131, 4691348, 4700480, 4709530, 4718499, 4727388,
    4736198, 4744932, 4753590, 4762174, 4770685, 4779123, 4787492,
    4795791, 4804021, 4812184, 4820282, 4828314, 4836282, 4844187,
    4852030>>

\* Math.log(x) in millionths, for a fraction x above 0
Log(x) == NaturalLog[x.num] - NaturalLog[x.den]

\* A number that may be infinite: its value is kept in millionths.
Finite(millionths) == [finite |-> TRUE, millionths |-> millionths]

Infinity == [finite |-> FALSE, millionths |-> 0]

\* Math.max(0, 171 - 5.2 * Math.log(avgCyclomatic) - 0.23 * totalCognitive):
\* Math.log(0) is -Infinity, and the index then Infinity
maintainabilityIndex(avgCyclomatic, totalCognitive) ==
  IF avgCyclomatic.num = 0 THEN Infinity
  ELSE Finite(Max(0, 171 * One - (52 * Log(avgCyclomatic)) \div 10
                     - 230000 * totalCognitive))

\* calculateComplexity and analyzeQuality
extractCodeMetrics(files) ==
  LET totalCyclomatic ==
        SumOver([i \in 1..Len(files) |-> files[i].analysis.cyclomatic],
                Len(files))
      totalFunctions ==
        SumOver([i \in 1..Len(files) |-> files[i].analysis.functions],
                Len(files))
      totalCognitive ==
        SumOver([i \in 1..Len(files) |-> files[i].analysis.cognitive],
                Len(files))
      codeSmells ==
        SumOver([i \in 1..Len(files) |-> files[i].codeSmells], Len(files))
      avgCyclomatic == IF totalFunctions > 0
                       THEN Fraction(totalCyclomatic, totalFunctions)
                       ELSE Fraction(0, 1)
  IN  [complexity |->
         [cyclomatic |-> avgCyclomatic,
          cognitive |-> totalCognitive,
          maintainabilityIndex |->
            maintainabilityIndex(avgCyclomatic, totalCognitive)],
       quality |-> [codeSmells |-> codeSmells]]

NewImpact ==
  [next |-> 1, cpuImpact |-> LevelNone, memoryImpact |-> LevelNone,
   ioImpact |-> LevelNone, estimatedLatencyChange |-> 0,
   scalabilityIssues |-> <<>>, optimizationOpportunities |-> <<>>]

\* a round that takes the levels from the current file alone
AnalyzeChangeResettingLevels(acc, change) ==
  LET found  == change.antiPatterns
      nested == found.nestedLoops > 2
      sync   == found.synchronousIO > 0
      arrays == found.largeArrayOperations > 0
      nPlus  == found.nPlusOneQueries
  IN  IF change.status = "deleted" THEN [acc EXCEPT !.next = @ + 1]
      ELSE [next |-> acc.next + 1,
            cpuImpact |-> IF nested THEN LevelHigh ELSE LevelNone,
            memoryImpact |-> IF arrays THEN LevelMedium ELSE LevelNone,
            ioImpact |-> IF sync \/ nPlus THEN LevelHigh ELSE LevelNone,
            estimatedLatencyChange |->
              acc.estimatedLatencyChange
              + (IF nested THEN 50 * found.nestedLoops ELSE 0)
              + (IF sync THEN 100 * found.synchronousIO ELSE 0)
              + (IF nPlus THEN 200 ELSE 0),
            scalabilityIssues |->
              acc.scalabilityIssues
              \o (IF nested THEN <<NestedLoopsIn \o change.filename>>
                  ELSE <<>>)
              \o (IF nPlus THEN <<NPlusOneIn \o change.filename>> ELSE <<>>),
            optimizationOpportunities |->
              acc.optimizationOpportunities
              \o (IF sync THEN <<SyncIOIn \o change.filename>> ELSE <<>>)
              \o (IF arrays THEN <<ArrayOperationsIn \o change.filename>>
                  ELSE <<>>)]

\* a round that counts two nested loops as deep
AnalyzeChangeFromTwoLoops(acc, change) ==
  LET found  == change.antiPatterns
      nested == found.nestedLoops >= 2
      sync   == found.synchronousIO > 0
      arrays == found.largeArrayOperations > 0
      nPlus  == found.nPlusOneQueries
  IN  IF change.status = "deleted" THEN [acc EXCEPT !.next = @ + 1]
      ELSE [next |-> acc.next + 1,
            cpuImpact |-> IF nested THEN LevelHigh ELSE acc.cpuImpact,
            memoryImpact |-> IF arrays THEN LevelMedium ELSE acc.memoryImpact,
            ioImpact |-> IF sync \/ nPlus THEN LevelHigh ELSE acc.ioImpact,
            estimatedLatencyChange |->
              acc.estimatedLatencyChange
              + (IF nested THEN 50 * found.nestedLoops ELSE 0)
              + (IF sync THEN 100 * found.synchronousIO ELSE 0)
              + (IF nPlus THEN 200 ELSE 0),
            scalabilityIssues |->
              acc.scalabilityIssues
              \o (IF nested THEN <<NestedLoopsIn \o change.filename>>
                  ELSE <<>>)
              \o (IF nPlus THEN <<NPlusOneIn \o change.filename>> ELSE <<>>),
            optimizationOpportunities |->
              acc.optimizationOpportunities
              \o (IF sync THEN <<SyncIOIn \o change.filename>> ELSE <<>>)
              \o (IF arrays THEN <<ArrayOperationsIn \o change.filename>>
                  ELSE <<>>)]

\* one round of the loop of analyzePerformanceImpact
AnalyzeChange(acc, change) ==
  LET found  == change.antiPatterns
      nested == found.nestedLoops > 2
      sync   == found.synchronousIO > 0
      arrays == found.largeArrayOperations > 0
      nPlus  == found.nPlusOneQueries
  IN  IF change.status = "deleted" THEN [acc EXCEPT !.next = @ + 1]
      ELSE [next |-> acc.next + 1,
            cpuImpact |-> IF nested THEN LevelHigh ELSE acc.cpuImpact,
            memoryImpact |-> IF arrays THEN LevelMedium ELSE acc.memoryImpact,
            ioImpact |-> IF sync \/ nPlus THEN LevelHigh ELSE acc.ioImpact,
            estimatedLatencyChange |->
              acc.estimatedLatencyChange
              + (IF nested THEN 50 * found.nestedLoops ELSE 0)
              + (IF sync THEN 100 * found.synchronousIO ELSE 0)
              + (IF nPlus THEN 200 ELSE 0),
            scalabilityIssues |->
              acc.scalabilityIssues
              \o (IF nested THEN <<NestedLoopsIn \o change.filename>>
                  ELSE <<>>)
              \o (IF nPlus THEN <<NPlusOneIn \o change.filename>> ELSE <<>>),
            optimizationOpportunities |->
              acc.optimizationOpportunities
              \o (IF sync THEN <<SyncIOIn \o change.filename>> ELSE <<>>)
              \o (IF arrays THEN <<ArrayOperationsIn \o change.filename>>
                  ELSE <<>>)]

\* the PerformanceImpact that analyzePerformanceImpact returns
PerformanceImpact(acc) ==
  [cpuImpact |-> acc.cpuImpact, memoryImpact |-> acc.memoryImpact,
   ioImpact |-> acc.ioImpact,
   estimatedLatencyChange |-> acc.estimatedLatencyChange,
   scalabilityIssues |-> acc.scalabilityIssues,
   optimizationOpportunities |-> acc.optimizationOpportunities]

\* Scores are fractions: every score of the inputs above is a multiple of
\* 1/2 or lies further from a threshold than a rounding error of a double.
Plus(x, y) == Fraction(x.num * y.den + y.num * x.den, x.den * y.den)

AtLeast(x, n) == x.num >= n * x.den

\* Math.min(10, x)
MaxScore == 10

Capped(x) == IF AtLeast(x, MaxScore) THEN Fraction(MaxScore, 1) ELSE x

DefaultScore == Fraction(5, 1)

impactMap ==
  (LevelHigh :> 3) @@ (LevelMedium :> 2) @@ (LevelLow :> 1) @@ (LevelNone :> 0)

securityScore(data) ==
  IF data.securityScan = <<>> THEN DefaultScore
  ELSE LET scan == data.securityScan[1]
       IN  Capped(Fraction(scan.critical * 8 + scan.high * 4
                           + scan.medium * 2 + scan.low, 2))

performanceScore(data) ==
  IF data.performanceImpact = <<>> THEN DefaultScore
  ELSE LET found == data.performanceImpact[1]
       IN  Fraction(2 * (impactMap[found.cpuImpact]
                         + impactMap[found.memoryImpact]
                         + impactMap[found.ioImpact])
                    + Len(found.scalabilityIssues), 2)

architecturalScore(data) ==
  IF data.codeMetrics = <<>> THEN DefaultScore
  ELSE LET metrics    == data.codeMetrics[1]
           cyclomatic == metrics.complexity.cyclomatic
       IN  Capped(Plus(Fraction(cyclomatic.num, cyclomatic.den * 10),
                       Fraction(metrics.quality.codeSmells, 2)))

compatibilityScore(data) ==
  LET apiChanges ==
        Len(SelectSeq(data.changedFiles,
                      LAMBDA f : includes(f.filename, KwApi)
                                 \/ includes(f.filename, KwInterface)))
  IN  Capped(Fraction(apiChanges * 2, 1))

avgScore(data) ==
  LET total == Plus(Plus(securityScore(data), performanceScore(data)),
                    Plus(architecturalScore(data), compatibilityScore(data)))
  IN  Fraction(total.num, total.den * 4)

\* levels whose medium begins above 4
overallRiskAboveFour(avg) ==
  IF AtLeast(avg, 8) THEN LevelCritical
  ELSE IF AtLeast(avg, 6) THEN LevelHigh
  ELSE IF avg.num > 4 * avg.den THEN LevelMedium
  ELSE LevelLow

overallRisk(avg) ==
  IF AtLeast(avg, 8) THEN LevelCritical
  ELSE IF AtLeast(avg, 6) THEN LevelHigh
  ELSE IF AtLeast(avg, 4) THEN LevelMedium
  ELSE LevelLow

riskSummary(data) ==
  LET text == trim(OverallRiskPrefix \o overallRisk(avgScore(data))
                   \o KeyConcernsPrefix
                   \o (IF AtLeast(securityScore(data), 7)
                       THEN ConcernSecurity ELSE <<>>)
                   \o (IF AtLeast(performanceScore(data), 7)
                       THEN ConcernPerformance ELSE <<>>)
                   \o (IF AtLeast(architecturalScore(data), 7)
                       THEN ConcernArchitecture ELSE <<>>)
                   \o (IF AtLeast(compatibilityScore(data), 7)
                       THEN ConcernCompatibility ELSE <<>>))
  IN  IF text = <<>> THEN NoneIdentified ELSE text

calculateRiskAssessment(data) ==
  [overall |-> overallRisk(avgScore(data)),
   security |-> securityScore(data),
   performance |-> performanceScore(data),
   architectural |-> architecturalScore(data),
   compatibility |-> compatibilityScore(data),
   summary |-> riskSummary(data)]

\* the argument gatherPRContext gives to calculateRiskAssessment
RiskData ==
  [securityScan |-> prData.securityScan,
   codeMetrics |-> codeMetrics,
   performanceImpact |-> IF prData.includeMetrics
                         THEN <<PerformanceImpact(impact)>> ELSE <<>>,
   changedFiles |-> prData.files]

\* gatherPRContext has fetched the pull request, its files and the scan
RiskInit ==
  /\ prData \in [files : FileLists, securityScan : SecurityScans,
                 includeMetrics : BOOLEAN]
  /\ codeMetrics = <<>>
  /\ impact = NewImpact
  /\ assessment = <<>>
  /\ gather = "fetched"

\* options.includeMetrics: the metrics are extracted and the analysis begins
IncludeMetrics ==
  /\ gather = "fetched"
  /\ prData.includeMetrics
  /\ codeMetrics' = <<extractCodeMetrics(prData.files)>>
  /\ gather' = "analyzing"
  /\ UNCHANGED <<prData, impact, assessment, notRisk>>

AnalyzePerformanceImpact ==
  /\ gather = "analyzing"
  /\ impact.next <= Len(prData.files)
  /\ impact' = AnalyzeChange(impact, prData.files[impact.next])
  /\ UNCHANGED <<prData, codeMetrics, assessment, gather, notRisk>>

ReturnPerformanceImpact ==
  /\ gather = "analyzing"
  /\ impact.next > Len(prData.files)
  /\ gather' = "analyzed"
  /\ UNCHANGED <<prData, codeMetrics, impact, assessment, notRisk>>

CalculateRiskAssessment ==
  /\ \/ gather = "fetched" /\ ~prData.includeMetrics
     \/ gather = "analyzed"
  /\ assessment' = <<calculateRiskAssessment(RiskData)>>
  /\ gather' = "assessed"
  /\ UNCHANGED <<prData, codeMetrics, impact, notRisk>>

RiskNext ==
  \/ IncludeMetrics
  \/ AnalyzePerformanceImpact
  \/ ReturnPerformanceImpact
  \/ CalculateRiskAssessment

\* ------------------------------------------------------------------------
\* EvidenceExtractor: findSimilarChanges
\* ------------------------------------------------------------------------

\* the commits of a repository considered at most
MaxCommits == 3

\* the commits of the one long history
LongLength == 12

\* A commit as git reports it: the diff of git show, whether a main branch
\* contains it, whether a later commit reverts it, its message, and the git
\* commands of the lookups that fail for it (none).
Commit(diff, inMain, reverted, message) ==
  [date |-> "2024-01-01", author |-> "dev", diff |-> diff,
   inMain |-> inMain, reverted |-> reverted, message |-> message,
   failing |-> {}]

\* The commit when these commands fail for it: "contains" is the git branch
\* --contains and "grep" the git log --grep of getCommitOutcome, "message"
\* the git log -1 of getRelatedIssues.
Failing(commit, commands) == [commit EXCEPT !.failing = commands]

CommitKinds ==
  <<Commit(DiffCurrent, TRUE, FALSE, MessageFix),
    Commit(DiffNear, FALSE, FALSE, MessagePlain),
    Commit(DiffClose, TRUE, TRUE, MessageFix),
    Commit(DiffThreshold, TRUE, FALSE, MessagePlain),
    Commit(DiffFar, FALSE, TRUE, MessagePlain),
    Commit(DiffEmpty, TRUE, FALSE, MessagePlain),
    Failing(Commit(DiffClose, TRUE, TRUE, MessageFix), {"contains"}),
    Failing(Commit(DiffClose, TRUE, TRUE, MessageFix), {"grep"}),
    Failing(Commit(DiffClose, TRUE, TRUE, MessageFix), {"message"})>>

\* %H of a commit is its position in the log
Hashed(kinds) ==
  [i \in 1..Len(kinds) |->
     [hash |-> i, date |-> kinds[i].date, author |-> kinds[i].author,
      diff |-> kinds[i].diff, inMain |-> kinds[i].inMain,
      reverted |-> kinds[i].reverted, message |-> kinds[i].message,
      failing |-> kinds[i].failing]]

\* a long history whose commits all resemble the diff
LongHistory == Hashed([i \in 1..LongLength |-> CommitKinds[(i % 3) + 1]])

Histories ==
  {LongHistory} \cup
  {Hashed(kinds) :
     kinds \in UNION {[1..n -> {CommitKinds[k] : k \in 1..Len(CommitKinds)}] :
                        n \in 1..MaxCommits}}

\* /\b\w+\b/g
WordEnds(t) ==
  [p \in 1..Len(t) |->
     IF t[p] \in WordChar /\ (p = 1 \/ t[p - 1] \notin WordChar)
     THEN RunIn(t, p, WordChar) ELSE 0]

\* new Set(diff.match(/\b\w+\b/g) || [])
DiffTokens(diff) ==
  LET ms == matchAll(diff, WordEnds(diff))
  IN  {SubSeq(diff, ms[i].first, ms[i].last) : i \in 1..Len(ms)}

\* a measure that answers 1 when neither text has a token
calculateDiffSimilarityOneWhenEmpty(diff1, diff2) ==
  LET tokens1 == DiffTokens(diff1)
      tokens2 == DiffTokens(diff2)
      union   == tokens1 \cup tokens2
  IN  IF Cardinality(union) > 0
      THEN Fraction(Cardinality(tokens1 \cap tokens2), Cardinality(union))
      ELSE Fraction(1, 1)

\* a measure that divides by the tokens of the first text
calculateDiffSimilarityOverFirst(diff1, diff2) ==
  LET tokens1 == DiffTokens(diff1)
      tokens2 == DiffTokens(diff2)
  IN  IF Cardinality(tokens1 \cup tokens2) > 0
      THEN Fraction(Cardinality(tokens1 \cap tokens2),
                    Max(1, Cardinality(tokens1)))
      ELSE Fraction(0, 1)

calculateDiffSimilarity(diff1, diff2) ==
  LET tokens1 == DiffTokens(diff1)
      tokens2 == DiffTokens(diff2)
      union   == tokens1 \cup tokens2
  IN  IF Cardinality(union) > 0
      THEN Fraction(Cardinality(tokens1 \cap tokens2), Cardinality(union))
      ELSE Fraction(0, 1)

\* similarity > 0.3
AboveThreshold(similarity) == similarity.num * 10 > 3 * similarity.den

\* an outcome lookup that answers 'rejected' when a command fails
getCommitOutcomeRejectedOnError(commit) ==
  IF "contains" \in commit.failing \/ ~commit.inMain THEN "rejected"
  ELSE IF "grep" \in commit.failing THEN "rejected"
  ELSE IF commit.reverted THEN "reverted"
  ELSE "merged"

\* grep exits with 1 when no main branch contains the commit, and execSync
\* throws: the catch answers 'merged', as it does when a command fails
getCommitOutcome(commit) ==
  IF "contains" \in commit.failing \/ ~commit.inMain THEN "merged"
  ELSE IF "grep" \in commit.failing THEN "merged"
  ELSE IF commit.reverted THEN "reverted"
  ELSE "merged"

\* /#(\d+)/g
IssueEnds(t) ==
  [p \in 1..Len(t) |->
     IF t[p] = "#" /\ p < Len(t) /\ t[p + 1] \in Digit
     THEN RunIn(t, p + 1, Digit) ELSE 0]

\* Array.from(message.matchAll(issuePattern), m => m[1]), and [] when git
\* log fails
getRelatedIssues(commit) ==
  LET ms == matchAll(commit.message, IssueEnds(commit.message))
  IN  IF "message" \in commit.failing THEN <<>>
      ELSE [i \in 1..Len(ms) |->
              SubSeq(commit.message, ms[i].first + 1, ms[i].last)]

HistoricalMatch(commit, similarity) ==
  [commit |-> commit.hash, date |-> commit.date, author |-> commit.author,
   similarity |-> similarity, outcome |-> getCommitOutcome(commit),
   issues |-> getRelatedIssues(commit)]

\* one round of the loop over the commits, git show having succeeded
CompareCommit(locals, diff, commit) ==
  LET similarity == calculateDiffSimilarity(diff, trim(commit.diff))
  IN  [locals EXCEPT
         !.next = @ + 1,
         !.matches = IF AboveThreshold(similarity)
                     THEN Append(@, HistoricalMatch(commit, similarity))
                     ELSE @]

\* a catch that loses the matches collected so far
CatchErrorDroppingMatches(locals) ==
  [locals EXCEPT !.failed = TRUE, !.matches = <<>>]

\* catch (error): the error is logged and the matches are kept
CatchError(locals) == [locals EXCEPT !.failed = TRUE]

\* a.similarity >= b.similarity
NotBelow(a, b) == a.num * b.den >= b.num * a.den

RECURSIVE InsertBySimilarity(_, _)
InsertBySimilarity(sorted, m) ==
  IF sorted = <<>> THEN <<m>>
  ELSE IF NotBelow(Head(sorted).similarity, m.similarity)
  THEN <<Head(sorted)>> \o InsertBySimilarity(Tail(sorted), m)
  ELSE <<m>> \o sorted

\* matches.sort((a, b) => b.similarity - a.similarity)
RECURSIVE SortBySimilarity(_, _)
SortBySimilarity(matches, n) ==
  IF n = 0 THEN <<>>
  ELSE InsertBySimilarity(SortBySimilarity(matches, n - 1), matches[n])

\* slice(0, 10)
MaxMatches == 10

\* a result that is cut to ten before it is sorted
SimilarChangesCutFirst(matches) ==
  SortBySimilarity(SubSeq(matches, 1, Min(MaxMatches, Len(matches))),
                   Min(MaxMatches, Len(matches)))

SimilarChanges(matches) ==
  SubSeq(SortBySimilarity(matches, Len(matches)), 1,
         Min(MaxMatches, Len(matches)))

HistoryInit ==
  /\ repo \in [diff : {DiffCurrent, DiffEmpty}, commits : Histories]
  /\ search = [next |-> 1, matches |-> <<>>, failed |-> FALSE]
  /\ similar = <<>>
  /\ finding = "called"

\* git log succeeds
GitLog ==
  /\ finding = "called"
  /\ finding' = "comparing"
  /\ UNCHANGED <<repo, search, similar, notHistory>>

\* git log fails: execSync throws
GitLogFails ==
  /\ finding = "called"
  /\ search' = CatchError(search)
  /\ finding' = "returning"
  /\ UNCHANGED <<repo, similar, notHistory>>

\* git show succeeds for the next commit
GitShow ==
  /\ finding = "comparing"
  /\ search.next <= Len(repo.commits)
  /\ search' = CompareCommit(search, repo.diff, repo.commits[search.next])
  /\ UNCHANGED <<repo, similar, finding, notHistory>>

\* git show fails for the next commit: execSync throws
GitShowFails ==
  /\ finding = "comparing"
  /\ search.next <= Len(repo.commits)
  /\ search' = CatchError(search)
  /\ finding' = "returning"
  /\ UNCHANGED <<repo, similar, notHistory>>

EndOfLog ==
  /\ finding = "comparing"
  /\ search.next > Len(repo.commits)
  /\ finding' = "returning"
  /\ UNCHANGED <<repo, search, similar, notHistory>>

ReturnMatches ==
  /\ finding = "returning"
  /\ similar' = <<SimilarChanges(search.matches)>>
  /\ finding' = "returned"
  /\ UNCHANGED <<repo, search, notHistory>>

HistoryNext ==
  \/ GitLog
  \/ GitLogFails
  \/ GitShow
  \/ GitShowFails
  \/ EndOfLog
  \/ ReturnMatches

\* ------------------------------------------------------------------------
\* The two similarity measures, called on their own
\* ------------------------------------------------------------------------

\* the longest text made of the letters below
MaxTextLength == 2

\* the calls a caller makes at most
MaxCalls == 2

\* a word character, a blank and a character that is neither
TextLetters == {"a", " ", "+"}

ShortTexts == UNION {[1..n -> TextLetters] : n \in 0..MaxTextLength}

SimilarityTexts == ShortTexts \cup {DiffCurrent, DiffClose, MessagePlain}

Score(of, text1, text2, similarity) ==
  [of |-> of, text1 |-> text1, text2 |-> text2, similarity |-> similarity]

SimilarityInit ==
  /\ texts \in SimilarityTexts \X SimilarityTexts
  /\ scores = {}

\* this.calculateDiffSimilarity(diff1, diff2), on the texts in either order
CalculateDiffSimilarity ==
  /\ Cardinality(scores) < MaxCalls
  /\ \E diff1, diff2 \in {texts[1], texts[2]} :
       scores' = scores \cup
                 {Score("calculateDiffSimilarity", diff1, diff2,
                        calculateDiffSimilarity(diff1, diff2))}
  /\ UNCHANGED <<texts, notSimilarity>>

\* this.calculateSimilarity(text1, text2), on the texts in either order
CalculateSimilarity ==
  /\ Cardinality(scores) < MaxCalls
  /\ \E text1, text2 \in {texts[1], texts[2]} :
       scores' = scores \cup
                 {Score("calculateSimilarity", text1, text2,
                        calculateSimilarity(text1, text2))}
  /\ UNCHANGED <<texts, notSimilarity>>

SimilarityNext ==
  \/ CalculateDiffSimilarity
  \/ CalculateSimilarity

\* ------------------------------------------------------------------------
\* EvidenceExtractor: scanSecurityIssues
\* ------------------------------------------------------------------------

\* the lines of a scanned code at most
MaxLines == 2

\* the last position of the word of words that the text has at p, whatever
\* its case, or 0: no word of a set below begins another
WordEndAt(t, p, words) ==
  LET found == {w \in words : LitAt(toLowerCase(t), p, w)}
  IN  IF found = {} THEN 0 ELSE p + Len(CHOOSE w \in found : TRUE) - 1

\* the position after \s* at p
AfterSpace(t, p) == RunIn(t, p, Space) + 1

\* \$\{[^}]+\} at p
TemplateEnd(t, p) ==
  LET r == RunNotIn(t, p + 2, {"}"})
  IN  IF LitAt(t, p, <<"$", "{">>) /\ r >= p + 2 /\ r < Len(t)
      THEN r + 1 ELSE 0

\* "\s*\+[^+]+\+\s*" at p
ConcatenationEnd(t, p) ==
  LET plus  == AfterSpace(t, p + 1)
      r     == RunNotIn(t, plus + 1, {"+"})
      close == AfterSpace(t, r + 2)
  IN  IF /\ p <= Len(t) /\ t[p] = "\""
         /\ plus <= Len(t) /\ t[plus] = "+"
         /\ r >= plus + 1 /\ r < Len(t)
         /\ close <= Len(t) /\ t[close] = "\""
      THEN close ELSE 0

\* /(\$\{[^}]+\}|"\s*\+[^+]+\+\s*")\s*(?:WHERE|SELECT|INSERT|UPDATE|DELETE)/gi
SqlInjectionEnds(t) ==
  [p \in 1..Len(t) |->
     LET first == IF TemplateEnd(t, p) # 0 THEN TemplateEnd(t, p)
                  ELSE ConcatenationEnd(t, p)
     IN  IF first = 0 THEN 0
         ELSE WordEndAt(t, AfterSpace(t, first + 1), SqlKeywords)]

\* /(exec|spawn|system)\s*\([^)]*\$\{[^}]+\}/gi: [^)]* is greedy, the
\* template is the last one it reaches
CommandInjectionEnds(t) ==
  [p \in 1..Len(t) |->
     LET name   == WordEndAt(t, p, CommandCalls)
         open   == AfterSpace(t, name + 1)
         reach  == RunNotIn(t, open + 1, {")"})
         starts == {s \in (open + 1)..reach : TemplateEnd(t, s) # 0}
     IN  IF name = 0 \/ open > Len(t) THEN 0
         ELSE IF t[open] # "(" \/ starts = {} THEN 0
         ELSE TemplateEnd(t, MaxOf(starts))]

\* ['"`]
Quotes == {"'", "\"", Backtick}

\* (\$\{[^}]+\}|user|input|param) at p
XssSourceEnd(t, p) ==
  IF TemplateEnd(t, p) # 0 THEN TemplateEnd(t, p)
  ELSE WordEndAt(t, p, XssSources)

\* /innerHTML\s*=\s*[^'"`]+(\$\{[^}]+\}|user|input|param)/gi: [^'"`]+ is
\* greedy and takes one character at least, the source is the last one
\* it reaches
XssEnds(t) ==
  [p \in 1..Len(t) |->
     LET sink   == IF LitAt(toLowerCase(t), p, KwInnerHtml)
                   THEN p + Len(KwInnerHtml) - 1 ELSE 0
         equals == AfterSpace(t, sink + 1)
         reach  == RunNotIn(t, equals + 1, Quotes)
         starts == {s \in (equals + 2)..(reach + 1) : XssSourceEnd(t, s) # 0}
     IN  IF sink = 0 \/ equals > Len(t) THEN 0
         ELSE IF t[equals] # "=" \/ starts = {} THEN 0
         ELSE XssSourceEnd(t, MaxOf(starts))]

\* {8,}
MinSecretLength == 8

\* /(api[_-]?key|secret|password|token)\s*[:=]\s*["'][^"']{8,}/gi
HardcodedSecretEnds(t) ==
  [p \in 1..Len(t) |->
     LET name  == WordEndAt(t, p, SecretNames)
         sign  == AfterSpace(t, name + 1)
         quote == AfterSpace(t, sign + 1)
         r     == RunNotIn(t, quote + 1, {"\"", "'"})
     IN  IF name = 0 \/ quote > Len(t) THEN 0
         ELSE IF t[sign] \notin {":", "="} \/ t[quote] \notin {"\"", "'"}
         THEN 0
         ELSE IF r - quote >= MinSecretLength THEN r ELSE 0]

\* /\b(MD5|SHA1|DES|RC4)\b/gi
WeakCryptoEnds(t) ==
  [p \in 1..Len(t) |->
     LET word == WordEndAt(t, p, WeakAlgorithms)
     IN  IF /\ word # 0
            /\ (p = 1 \/ t[p - 1] \notin WordChar)
            /\ (word = Len(t) \/ t[word + 1] \notin WordChar)
         THEN word ELSE 0]

\* the vulnerability patterns, in the order they are tried on a line
patterns ==
  <<[name |-> "SQL Injection", severity |-> "critical",
     message |-> "Potential SQL injection vulnerability",
     cwe |-> "CWE-89", owasp |-> "A03:2021"],
    [name |-> "Command Injection", severity |-> "critical",
     message |-> "Potential command injection vulnerability",
     cwe |-> "CWE-78", owasp |-> "A03:2021"],
    [name |-> "XSS", severity |-> "high",
     message |-> "Potential XSS vulnerability",
     cwe |-> "CWE-79", owasp |-> "A03:2021"],
    [name |-> "Hardcoded Secret", severity |-> "high",
     message |-> "Hardcoded secret detected",
     cwe |-> "CWE-798", owasp |-> "A07:2021"],
    [name |-> "Weak Crypto", severity |-> "medium",
     message |-> "Weak cryptographic algorithm",
     cwe |-> "CWE-327", owasp |-> "A02:2021"]>>

\* pattern.regex of the k-th pattern, on a line
PatternEnds(k, line) ==
  CASE k = 1 -> SqlInjectionEnds(line)
    [] k = 2 -> CommandInjectionEnds(line)
    [] k = 3 -> XssEnds(line)
    [] k = 4 -> HardcodedSecretEnds(line)
    [] k = 5 -> WeakCryptoEnds(line)

generateFixSuggestion(vulnerabilityType) ==
  CASE vulnerabilityType = "SQL Injection" ->
         "Use parameterized queries or prepared statements"
    [] vulnerabilityType = "Command Injection" ->
         "Validate and sanitize input, use safe APIs"
    [] vulnerabilityType = "XSS" ->
         "Use textContent instead of innerHTML, escape user input"
    [] vulnerabilityType = "Hardcoded Secret" ->
         "Use environment variables or secret management service"
    [] vulnerabilityType = "Weak Crypto" ->
         "Use strong algorithms like AES-256, SHA-256"
    [] OTHER -> "Review and fix the security issue"

\* /\n/, for code.split('\n')
NewlineEnds(t) == [p \in 1..Len(t) |-> IF t[p] = "\n" THEN p ELSE 0]

\* the issue pushed for a match at index in the line of index lineNum; id
\* stands for the value of crypto.randomUUID()
SecurityIssue(id, pattern, filename, lineNum, index) ==
  [id |-> id, severity |-> pattern.severity, type |-> pattern.name,
   file |-> filename, line |-> lineNum + 1, column |-> index,
   message |-> pattern.message, cwe |-> pattern.cwe, owasp |-> pattern.owasp,
   fixSuggestion |-> generateFixSuggestion(pattern.name)]

\* the matches of a pattern on a line, the first one alone
FirstOfMatches(k, line) ==
  LET ms == matchAll(line, PatternEnds(k, line))
  IN  IF ms = <<>> THEN <<>> ELSE <<ms[1]>>

\* line.matchAll(pattern.regex)
PatternMatches(k, line) == matchAll(line, PatternEnds(k, line))

\* the issues after the patterns from the k-th on were tried on a line
RECURSIVE TryPatterns(_, _, _, _, _)
TryPatterns(issues, line, lineNum, filename, k) ==
  IF k > Len(patterns) THEN issues
  ELSE LET ms == PatternMatches(k, line)
           pushed == [i \in 1..Len(ms) |->
                        SecurityIssue(Len(issues) + i, patterns[k], filename,
                                      lineNum, ms[i].first - 1)]
       IN  TryPatterns(issues \o pushed, line, lineNum, filename, k + 1)

ScanLineKinds ==
  {LineExec, LineDigests, LineQuery, LineMarkup, LineSecret, LinePlain,
   LineSpawn, LineTwoExecs}

\* the codes given to scanSecurityIssues: some lines, joined
ScanCodes ==
  {Join(ls, <<"\n">>) :
     ls \in UNION {[1..n -> ScanLineKinds] : n \in 0..MaxLines}}

ScanInit ==
  /\ code \in [code : ScanCodes, filename : {FileScanned}]
  /\ lineScan = [lineNum |-> 0, issues |-> <<>>]
  /\ scanned = <<>>
  /\ scanning = "called"

\* const lines = code.split('\n')
Lines == split(code.code, NewlineEnds(code.code))

\* one round of the loop over the lines
ScanLine ==
  /\ scanning = "called"
  /\ lineScan.lineNum < Len(Lines)
  /\ lineScan' = [lineNum |-> lineScan.lineNum + 1,
                  issues |-> TryPatterns(lineScan.issues,
                                         Lines[lineScan.lineNum + 1],
                                         lineScan.lineNum, code.filename, 1)]
  /\ UNCHANGED <<code, scanned, scanning, notScan>>

\* return issues
ReturnIssues ==
  /\ scanning = "called"
  /\ lineScan.lineNum >= Len(Lines)
  /\ scanned' = <<lineScan.issues>>
  /\ scanning' = "returned"
  /\ UNCHANGED <<code, lineScan, notScan>>

ScanNext ==
  \/ ScanLine
  \/ ReturnIssues

\* ------------------------------------------------------------------------
\* ContextBuilder.buildContext and its cache
\* ------------------------------------------------------------------------

\* most head commits a pull request gets
MaxHeads == 2

\* most steps of the clock
MaxTicks == 2

\* the pull requests of the repository
PullNumbers == {7, 12}

\* the options of a call: absent, or { includeMetrics }
OptionsGiven == {<<>>, <<[includeMetrics |-> TRUE]>>}

\* Date.now() - data.timestamp < 3600000
CacheTtl == 3600000

\* the clock is read every half hour
ClockStep == CacheTtl \div 2

\* JSON.stringify({ prNumber, options }): a property that is undefined is
\* left out
StringifyKey(prNumber, options) ==
  JsonPrNumber \o NaturalText(prNumber)
  \o (IF options = <<>> THEN <<>>
      ELSE JsonOptions \o JsonIncludeMetrics
           \o (IF options[1].includeMetrics THEN TextTrue ELSE TextFalse)
           \o JsonClose)
  \o JsonClose

\* the hex digest of a text; no two texts of the model have one digest, and
\* the digest is written as the text it was taken of
Md5Hex(text) == <<"m", "d", "5", "(">> \o text \o <<")">>

\* the name of the cache file of a call, without its extension
getCacheKey(prNumber, options) == Md5Hex(StringifyKey(prNumber, options))

\* getFromCache(key): data.content of the file of this key when it is
\* younger than an hour, else null; a file that cannot be read is a miss
getFromCache(key) ==
  LET valid == {file \in cacheFiles :
                  file.key = key /\ clock - file.timestamp < CacheTtl}
  IN  IF valid # {} THEN <<(CHOOSE file \in valid : TRUE).content>>
      ELSE <<>>

\* saveToCache(key, content): the file of the key is written over
saveToCache(key, content) ==
  {file \in cacheFiles : file.key # key}
  \cup {[key |-> key, content |-> content, timestamp |-> clock]}

\* formatContext(gatherPRContext(prNumber, options), options): the context
\* of the pull request as it is now, named by what it was built from
FormattedContext(prNumber, options) ==
  [prNumber |-> prNumber, head |-> heads[prNumber], options |-> options]

\* no head commit was pushed, the cache directory is empty, no call was made
CacheIdle ==
  /\ heads = [n \in PullNumbers |-> 1]
  /\ clock = 0
  /\ cacheFiles = {}
  /\ built = [op |-> "new", prNumber |-> 0, options |-> <<>>, head |-> 0,
              out |-> <<>>, cached |-> FALSE]

CacheInit == CacheIdle

\* a commit is pushed to the branch of a pull request
PushCommit ==
  \E n \in PullNumbers :
    /\ heads[n] < MaxHeads
    /\ heads' = [heads EXCEPT ![n] = @ + 1]
    /\ UNCHANGED <<clock, cacheFiles, built, notCache>>

\* half an hour passes
Tick ==
  /\ clock < MaxTicks * ClockStep
  /\ clock' = clock + ClockStep
  /\ UNCHANGED <<heads, cacheFiles, built, notCache>>

\* buildContext(prNumber, options) when getFromCache answers a content
BuildContextCached ==
  \E n \in PullNumbers, o \in OptionsGiven :
    LET cached == getFromCache(getCacheKey(n, o))
    IN  /\ cached # <<>>
        /\ built' = [op |-> "buildContext", prNumber |-> n, options |-> o,
                     head |-> heads[n],
                     out |-> cached[1], cached |-> TRUE]
        /\ UNCHANGED <<heads, clock, cacheFiles, notCache>>

\* buildContext(prNumber, options) when getFromCache answers null: the
\* context is gathered, formatted and saved
BuildContext ==
  \E n \in PullNumbers, o \in OptionsGiven :
    LET cacheKey  == getCacheKey(n, o)
        formatted == FormattedContext(n, o)
    IN  /\ getFromCache(cacheKey) = <<>>
        /\ cacheFiles' = saveToCache(cacheKey, formatted)
        /\ built' = [op |-> "buildContext", prNumber |-> n, options |-> o,
                     head |-> heads[n],
                     out |-> formatted, cached |-> FALSE]
        /\ UNCHANGED <<heads, clock, notCache>>

\* the same when saveToCache cannot write the file: the error is logged
BuildContextUnsaved ==
  \E n \in PullNumbers, o \in OptionsGiven :
    /\ getFromCache(getCacheKey(n, o)) = <<>>
    /\ built' = [op |-> "buildContext", prNumber |-> n, options |-> o,
                 head |-> heads[n],
                 out |-> FormattedContext(n, o), cached |-> FALSE]
    /\ UNCHANGED <<heads, clock, cacheFiles, notCache>>

CacheNext ==
  \/ PushCommit
  \/ Tick
  \/ BuildContextCached
  \/ BuildContext
  \/ BuildContextUnsaved

\* ------------------------------------------------------------------------
\* Specifications: one per component
\* ------------------------------------------------------------------------

\* no pull request is being gathered
RiskIdle ==
  /\ prData = [files |-> <<>>, securityScan |-> <<>>, includeMetrics |-> FALSE]
  /\ codeMetrics = <<>>
  /\ impact = NewImpact
  /\ assessment = <<>>
  /\ gather = "idle"

\* no search of the history is running
HistoryIdle ==
  /\ repo = [diff |-> <<>>, commits |-> <<>>]
  /\ search = [next |-> 1, matches |-> <<>>, failed |-> FALSE]
  /\ similar = <<>>
  /\ finding = "idle"

\* no similarity is being measured
SimilarityIdle ==
  /\ texts = <<<<>>, <<>>>>
  /\ scores = {}

\* no code is being scanned
ScanIdle ==
  /\ code = [code |-> <<>>, filename |-> <<>>]
  /\ lineScan = [lineNum |-> 0, issues |-> <<>>]
  /\ scanned = <<>>
  /\ scanning = "idle"

\* an ArgumentMiner and its client
Init == MinerInit /\ RiskIdle /\ HistoryIdle /\ SimilarityIdle /\ ScanIdle /\ CacheIdle

Next == MinerNext

Spec == Init /\ [][Next]_vars

\* ContextBuilder.gatherPRContext
RiskSpecInit ==
  MinerInit /\ RiskInit /\ HistoryIdle /\ SimilarityIdle /\ ScanIdle /\ CacheIdle

RiskSpec == RiskSpecInit /\ [][RiskNext]_vars

\* EvidenceExtractor.findSimilarChanges
HistorySpecInit ==
  MinerInit /\ RiskIdle /\ HistoryInit /\ SimilarityIdle /\ ScanIdle /\ CacheIdle

HistorySpec == HistorySpecInit /\ [][HistoryNext]_vars

\* the two similarity measures and their callers
SimilaritySpecInit ==
  MinerInit /\ RiskIdle /\ HistoryIdle /\ SimilarityInit /\ ScanIdle /\ CacheIdle

SimilaritySpec == SimilaritySpecInit /\ [][SimilarityNext]_vars

\* EvidenceExtractor.scanSecurityIssues
ScanSpecInit ==
  MinerInit /\ RiskIdle /\ HistoryIdle /\ SimilarityIdle /\ ScanInit /\ CacheIdle

ScanSpec == ScanSpecInit /\ [][ScanNext]_vars

\* an ArgumentMiner and the client of two agents that dispute one change
DisputeSpecInit ==
  DisputeInit /\ RiskIdle /\ HistoryIdle /\ SimilarityIdle /\ ScanIdle /\ CacheIdle

DisputeSpec == DisputeSpecInit /\ [][MinerNext]_vars

\* ContextBuilder.buildContext and its cache
CacheSpecInit ==
  MinerInit /\ RiskIdle /\ HistoryIdle /\ SimilarityIdle /\ ScanIdle
  /\ CacheInit

CacheSpec == CacheSpecInit /\ [][CacheNext]_vars

\* ------------------------------------------------------------------------
\* Properties of the ArgumentMiner
\* ------------------------------------------------------------------------

Range(s) == {s[i] : i \in 1..Len(s)}

NodeIds == Ids(graph.nodes)

\* the edges of the current graph that count for the consensus
RelationEdges ==
  {i \in 1..Len(graph.edges) :
     graph.edges[i].type \in {"supports", "rebuts", "undermines"}}

SupportEdges == {i \in 1..Len(graph.edges) : graph.edges[i].type = "supports"}

\* C1: after any sequence of parseAgentOutput and buildArgumentGraph calls,
\* generateMetrics rescores exactly the arguments that are nodes of the
\* current graph, and totalArguments is the number of nodes of that graph.
C1_MetricsCoverCurrentGraph ==
  call.op = "generateMetrics" =>
    /\ Range(call.out.scored) = Range(NodeIds)
    /\ call.out.totalArguments = Len(graph.nodes)

\* C2: after every buildArgumentGraph(args) call the nodes of the graph are
\* the arguments of args, one node per argument in the same order, every
\* edge joins two nodes of that graph, and no pair of nodes has two edges
\* (nothing of an earlier build is left).
C2_GraphIsLatestBuild ==
  /\ call.op = "buildArgumentGraph" => NodeIds = call.in
  /\ \A i \in 1..Len(graph.edges) :
       /\ graph.edges[i].from \in Range(NodeIds)
       /\ graph.edges[i].to \in Range(NodeIds)
       /\ \A j \in 1..Len(graph.edges) :
            {graph.edges[i].from, graph.edges[i].to}
              = {graph.edges[j].from, graph.edges[j].to} => i = j

\* a graph with an edge is built again from the same list, and still has
\* one edge
C2_Witness ==
  /\ call.op = "buildArgumentGraph"
  /\ call.repeated
  /\ Len(graph.nodes) = 2
  /\ Len(graph.edges) = 1

C4_ConsensusIsSupportRatio ==
  call.op = "generateMetrics" =>
    LET level == call.out.consensusLevel
    IN  /\ level.den > 0
        /\ 0 <= level.num
        /\ level.num <= level.den
        /\ RelationEdges # {} =>
             level.num * Cardinality(RelationEdges)
               = Cardinality(SupportEdges) * level.den

C4_Witness ==
  /\ call.op = "generateMetrics"
  /\ SupportEdges # {}
  /\ call.out.consensusLevel.num = call.out.consensusLevel.den

\* arguments of every shape the strength formula distinguishes, up to all
\* components present at once
ManyGrounds == 4

Filler == <<"x">>

ArgumentShapes ==
  [id        : 1..MaxArgs,
   agent     : {AgentSec},
   claim     : {Filler},
   grounds   : {<<>>, [i \in 1..ManyGrounds |-> Filler]},
   warrant   : {<<>>, Filler},
   backing   : {<<>>, <<[type |-> "code", confidence |-> 95]>>},
   qualifier : {<<>>, Filler},
   rebuttal  : {<<>>, Filler},
   strength  : {0}]

\* C5: calculateArgumentStrength returns a value in [0,1] for every
\* argument and every graph, so every stored strength is in [0,1]. (Only
\* buildArgumentGraph assigns the graph: every graph is the graph of a state
\* that follows the constructor or a build.)
C5_StrengthInUnitInterval ==
  /\ call.op \in {"new", "buildArgumentGraph"} =>
       \A a \in ArgumentShapes :
         0 <= calculateArgumentStrength(a) /\ calculateArgumentStrength(a) <= One
  /\ \A i \in 1..Len(arguments) :
       0 <= arguments[i].strength /\ arguments[i].strength <= One

\* generateMetrics has run; in its graph the sum of an argument with every
\* component present exceeds 1, and a stored argument whose sum is below 0
\* was given the strength 0
C5_Witness ==
  /\ call.op = "generateMetrics"
  /\ \E a \in ArgumentShapes : RawStrength(a) > One
  /\ \E i \in 1..Len(arguments) :
       RawStrength(arguments[i]) < 0 /\ arguments[i].strength = 0

\* C6: buildArgumentGraph called twice in a row with the same list yields
\* the same nodes and the same edges.
C6_RebuildIsSame ==
  [][(call.op = "buildArgumentGraph" /\ call'.op = "buildArgumentGraph"
      /\ call'.in = call.in) => graph' = graph]_vars

C6_Witness ==
  /\ call.op = "buildArgumentGraph"
  /\ call.repeated
  /\ \E i \in 1..Len(graph.edges) : graph.edges[i].type = "supports"

\* C7: an argument's strength is 0 when parseAgentOutput creates it, and
\* parseAgentOutput and buildArgumentGraph leave every stored strength as
\* it is.
C7_OnlyMetricsChangeStrength ==
  [][call'.op \in {"parseAgentOutput", "buildArgumentGraph"} =>
       /\ Len(arguments') >= Len(arguments)
       /\ \A i \in 1..Len(arguments) :
            arguments'[i].strength = arguments[i].strength
       /\ \A i \in (Len(arguments) + 1)..Len(arguments') :
            arguments'[i].strength = 0]_vars

\* a scored argument and a newly parsed one are stored side by side
C7_Witness ==
  /\ call.op = "parseAgentOutput"
  /\ Len(call.out) = 1
  /\ \E i \in 1..Len(arguments) : arguments[i].strength > 0

\* ------------------------------------------------------------------------
\* Properties of the risk assessment
\* ------------------------------------------------------------------------

\* the score is the number n
Equals(x, n) == x.num = n * x.den

InRange(x) == x.den > 0 /\ 0 <= x.num /\ x.num <= MaxScore * x.den

\* C8: each of the four scores that calculateRiskAssessment returns lies in
\* [0,10], whatever the scan, the metrics, the performance impact and the
\* changed files are.
C8_ScoresWithinTen ==
  assessment # <<>> =>
    /\ InRange(assessment[1].security)
    /\ InRange(assessment[1].performance)
    /\ InRange(assessment[1].architectural)
    /\ InRange(assessment[1].compatibility)

\* four times the mean of the four scores of the assessment
ScoreTotal ==
  Plus(Plus(assessment[1].security, assessment[1].performance),
       Plus(assessment[1].architectural, assessment[1].compatibility))

\* C9: the overall level follows the mean m of the four scores: critical
\* iff m >= 8, high iff 6 <= m < 8, medium iff 4 <= m < 6, low iff m < 4;
\* the scores 9, 2, 2, 2 give low.
C9_OverallFollowsMean ==
  assessment # <<>> =>
    LET overall == assessment[1].overall
        total   == ScoreTotal
    IN  /\ overall = LevelCritical <=> AtLeast(total, 32)
        /\ overall = LevelHigh <=> AtLeast(total, 24) /\ ~AtLeast(total, 32)
        /\ overall = LevelMedium <=> AtLeast(total, 16) /\ ~AtLeast(total, 24)
        /\ overall = LevelLow <=> ~AtLeast(total, 16)
        /\ (/\ Equals(assessment[1].security, 9)
            /\ Equals(assessment[1].performance, 2)
            /\ Equals(assessment[1].architectural, 2)
            /\ Equals(assessment[1].compatibility, 2)) => overall = LevelLow

\* the assessment with the scores 9, 2, 2, 2
C9_Witness ==
  /\ assessment # <<>>
  /\ Equals(assessment[1].security, 9)
  /\ Equals(assessment[1].performance, 2)
  /\ Equals(assessment[1].architectural, 2)
  /\ Equals(assessment[1].compatibility, 2)
  /\ assessment[1].overall = LevelLow

\* ------------------------------------------------------------------------
\* Properties of findSimilarChanges
\* ------------------------------------------------------------------------

\* the commits that were compared before the call returned
Compared == 1..(search.next - 1)

SimilarityOf(i) == calculateDiffSimilarity(repo.diff, trim(repo.commits[i].diff))

\* the compared commits that resemble the diff
Resembling == {i \in Compared : AboveThreshold(SimilarityOf(i))}

\* C10: when git log or a git show fails, findSimilarChanges still returns:
\* the matches of the commits compared before the failure, sorted by
\* similarity, at most 10 of them (the most similar ones).
C10_FailureKeepsMatches ==
  (finding = "returned" /\ search.failed) =>
    /\ similar # <<>>
    /\ LET result   == similar[1]
           returned == {result[k].commit : k \in 1..Len(result)}
       IN  /\ Len(result) = Min(MaxMatches, Cardinality(Resembling))
           /\ Cardinality(returned) = Len(result)
           /\ returned \subseteq Resembling
           /\ \A k \in 1..Len(result) :
                result[k].similarity = SimilarityOf(result[k].commit)
           /\ \A k \in 1..(Len(result) - 1) :
                NotBelow(result[k].similarity, result[k + 1].similarity)
           /\ \A i \in Resembling \ returned : \A k \in 1..Len(result) :
                NotBelow(result[k].similarity, SimilarityOf(i))

\* a git show failed after more than ten resembling commits were compared
C10_Witness ==
  /\ finding = "returned"
  /\ search.failed
  /\ search.next <= Len(repo.commits)
  /\ Len(search.matches) > MaxMatches
  /\ Len(similar[1]) = MaxMatches

\* the matches retained by the loop that are not in the returned list
LeftOut ==
  {i \in 1..Len(search.matches) :
     \A k \in 1..Len(similar[1]) : similar[1][k] # search.matches[i]}

\* C11: findSimilarChanges returns at most 10 matches, in non-increasing
\* order of similarity, and they are the most similar of the retained
\* commits: no retained commit that is left out is more similar than a
\* returned one.
C11_TopTenBySimilarity ==
  finding = "returned" =>
    LET result == similar[1]
    IN  /\ Len(result) <= 10
        /\ Len(result) = Min(10, Len(search.matches))
        /\ \A k \in 1..Len(result) :
             \E i \in 1..Len(search.matches) : search.matches[i] = result[k]
        /\ \A k, l \in 1..Len(result) :
             k < l => /\ result[k].commit # result[l].commit
                      /\ NotBelow(result[k].similarity, result[l].similarity)
        /\ \A i \in LeftOut : \A k \in 1..Len(result) :
             NotBelow(result[k].similarity, search.matches[i].similarity)

\* the whole log was compared, more than ten commits were retained, and the
\* returned list is not in the order of the log
C11_Witness ==
  /\ finding = "returned"
  /\ ~search.failed
  /\ Len(search.matches) > 10
  /\ Len(similar[1]) = 10
  /\ \E k \in 1..9 : similar[1][k].commit > similar[1][k + 1].commit

HasWordToken(text) == \E p \in 1..Len(text) : text[p] \in WordChar

\* C12 as claimed: the similarity of any text with itself is exactly 1, for
\* both measures, the empty text and a text without a word token included.
C12_SelfSimilarityIsOne ==
  \A s \in scores :
    s.text1 = s.text2 => /\ s.similarity.den > 0
                         /\ s.similarity.num = s.similarity.den

\* C12: the similarity of a text with itself is exactly 1 for
\* calculateSimilarity, whatever the text, and for calculateDiffSimilarity
\* when the text has a word token; calculateDiffSimilarity of a text without
\* a word token with itself is 0.
C12_SelfSimilarityOfTokens ==
  \A s \in scores :
    s.text1 = s.text2 =>
      /\ s.similarity.den > 0
      /\ IF s.of = "calculateDiffSimilarity" /\ ~HasWordToken(s.text1)
         THEN s.similarity.num = 0
         ELSE s.similarity.num = s.similarity.den

\* both measures were applied to the empty text and itself
C12_Witness ==
  /\ \E s \in scores : /\ s.of = "calculateDiffSimilarity"
                       /\ s.text1 = <<>> /\ s.text2 = <<>>
  /\ \E s \in scores : /\ s.of = "calculateSimilarity"
                       /\ s.text1 = <<>> /\ s.text2 = <<>>

\* C13: both measures are symmetric: a call on (A, B) and a call of the same
\* measure on (B, A) return the same number.
C13_SimilarityIsSymmetric ==
  \A s, t \in scores :
    (s.of = t.of /\ s.text1 = t.text2 /\ s.text2 = t.text1) =>
      /\ s.similarity.den > 0
      /\ t.similarity.den > 0
      /\ s.similarity.num * t.similarity.den
           = t.similarity.num * s.similarity.den

\* one measure was applied to two texts in both orders, the texts sharing
\* some of their tokens and not all
C13_Witness ==
  \E s, t \in scores :
    /\ s.of = t.of /\ s.text1 = t.text2 /\ s.text2 = t.text1
    /\ s.text1 # s.text2
    /\ Cardinality(DiffTokens(s.text1)) # Cardinality(DiffTokens(s.text2))
    /\ 0 < s.similarity.num /\ s.similarity.num < s.similarity.den

\* none < low < medium < high
LevelRank(level) ==
  CASE level = LevelNone -> 0
    [] level = LevelLow -> 1
    [] level = LevelMedium -> 2
    [] level = LevelHigh -> 3

\* the files of the changeset that analyzePerformanceImpact reads
Analyzed == SelectSeq(prData.files, LAMBDA f : f.status # "deleted")

\* the highest of the levels that the files of a list call for, none
\* for an empty list
HighestLevel(CalledFor(_), files) ==
  IF files = <<>> THEN LevelNone
  ELSE CHOOSE level \in {CalledFor(files[i]) : i \in 1..Len(files)} :
         \A i \in 1..Len(files) :
           LevelRank(level) >= LevelRank(CalledFor(files[i]))

CpuCalledFor(f) ==
  IF f.antiPatterns.nestedLoops > 2 THEN LevelHigh ELSE LevelNone

MemoryCalledFor(f) ==
  IF f.antiPatterns.largeArrayOperations > 0 THEN LevelMedium ELSE LevelNone

IoCalledFor(f) ==
  IF f.antiPatterns.synchronousIO > 0 \/ f.antiPatterns.nPlusOneQueries
  THEN LevelHigh ELSE LevelNone

\* C14: from one file of the changeset to the next no level of
\* analyzePerformanceImpact moves down (none < low < medium < high), so that
\* a changeset with one more file never has a lower level, and each returned
\* level is the highest that a file of the changeset calls for.
C14_LevelsOnlyEscalate ==
  /\ [][/\ LevelRank(impact'.cpuImpact) >= LevelRank(impact.cpuImpact)
        /\ LevelRank(impact'.memoryImpact) >= LevelRank(impact.memoryImpact)
        /\ LevelRank(impact'.ioImpact) >= LevelRank(impact.ioImpact)]_vars
  /\ [](gather = "analyzed" =>
          /\ impact.cpuImpact = HighestLevel(CpuCalledFor, Analyzed)
          /\ impact.memoryImpact = HighestLevel(MemoryCalledFor, Analyzed)
          /\ impact.ioImpact = HighestLevel(IoCalledFor, Analyzed))

\* a changeset was analyzed whose last file has no anti-pattern and follows
\* a file that raised all three levels
C14_Witness ==
  /\ gather = "analyzed"
  /\ Len(prData.files) >= 2
  /\ LET last == prData.files[Len(prData.files)]
     IN  /\ last.status # "deleted"
         /\ CpuCalledFor(last) = LevelNone
         /\ MemoryCalledFor(last) = LevelNone
         /\ IoCalledFor(last) = LevelNone
  /\ impact.cpuImpact = LevelHigh
  /\ impact.memoryImpact = LevelMedium
  /\ impact.ioImpact = LevelHigh

\* the issues of a list that name deeply nested loops
NestedLoopIssues(issues) ==
  Len(SelectSeq(issues, LAMBDA issue : LitAt(issue, 1, NestedLoopsIn)))

\* what a file adds to the latency for other reasons than nested loops
OtherLatency(f) ==
  100 * f.antiPatterns.synchronousIO
  + (IF f.antiPatterns.nPlusOneQueries THEN 200 ELSE 0)

\* one round of the loop over the changeset: the file it reads
RoundOf(f) ==
  /\ gather = "analyzing"
  /\ impact.next <= Len(prData.files)
  /\ impact'.next = impact.next + 1
  /\ f = prData.files[impact.next]

\* C15: a file that is not deleted and has n > 2 nested loops sets cpuImpact
\* to high, adds 50 * n to estimatedLatencyChange and records one
\* scalability issue; with n <= 2 nested loops add nothing; a deleted file
\* changes nothing; a single file with n = 3 gives cpuImpact high and an
\* estimatedLatencyChange of at least 150.
C15_NestedLoopsEscalateCpu ==
  /\ [][\A f \in FileKinds : RoundOf(f) =>
          LET n == f.antiPatterns.nestedLoops
              added == impact'.estimatedLatencyChange
                       - impact.estimatedLatencyChange
              issues == NestedLoopIssues(impact'.scalabilityIssues)
                        - NestedLoopIssues(impact.scalabilityIssues)
          IN  IF f.status = "deleted"
              THEN PerformanceImpact(impact') = PerformanceImpact(impact)
              ELSE IF n > 2
              THEN /\ impact'.cpuImpact = LevelHigh
                   /\ added = 50 * n + OtherLatency(f)
                   /\ issues = 1
              ELSE /\ impact'.cpuImpact = impact.cpuImpact
                   /\ added = OtherLatency(f)
                   /\ issues = 0]_vars
  /\ [](( /\ gather = "analyzed"
          /\ Len(prData.files) = 1
          /\ prData.files[1].status # "deleted"
          /\ prData.files[1].antiPatterns.nestedLoops = 3) =>
          /\ impact.cpuImpact = LevelHigh
          /\ impact.estimatedLatencyChange >= 150)

\* a changeset was analyzed that has a file with four nested loops, a file
\* with two and a deleted file with three
C15_Witness ==
  /\ gather = "analyzed"
  /\ \E i, j, k \in 1..Len(prData.files) :
       /\ prData.files[i].status # "deleted"
       /\ prData.files[i].antiPatterns.nestedLoops = 4
       /\ prData.files[j].status # "deleted"
       /\ prData.files[j].antiPatterns.nestedLoops = 2
       /\ prData.files[k].status = "deleted"
       /\ prData.files[k].antiPatterns.nestedLoops = 3
  /\ impact.cpuImpact = LevelHigh
  /\ impact.estimatedLatencyChange >= 200

\* C16: whatever the files are, a list without a function and a list whose
\* average cyclomatic value is below 1 included, the maintainabilityIndex
\* that calculateComplexity returns is finite and lies in [0,171].
C16_MaintainabilityWithinRange ==
  codeMetrics # <<>> =>
    LET index == codeMetrics[1].complexity.maintainabilityIndex
    IN  /\ index.finite
        /\ 0 <= index.millionths
        /\ index.millionths <= 171 * One

\* C17: in every state of an ArgumentMiner, one without arguments included,
\* generateMetrics returns an averageStrength that is a number in [0,1],
\* never an undefined value or NaN.
C17_AverageStrengthIsDefined ==
  call.op = "generateMetrics" =>
    LET mean == call.out.averageStrength
    IN  /\ mean.den > 0
        /\ 0 <= mean.num
        /\ mean.num <= One * mean.den

\* the number of times a character occurs in a text
CountOf(text, char) == Cardinality({p \in 1..Len(text) : text[p] = char})

CountIn(template, char) ==
  SumOver([k \in 1..Len(template) |-> CountOf(template[k], char)],
          Len(template))

\* the number of times a character occurs in the markup of a document
\* with these numbers of nodes and edges
MarkupCount(nodes, edges, char) ==
  CountIn(GraphMLTemplate, char) + nodes * CountIn(NodeTemplate, char)
  + edges * CountIn(EdgeTemplate, char)

\* C18: exportGraphML escapes the text it embeds: whatever the claims and
\* the persona names contain, the document has no '<', '>' or double quote
\* besides those of its markup, and every '&' in it begins an entity.
C18_ExportEscapesText ==
  call.op = "exportGraphML" =>
    /\ \A char \in {"<", ">", "\""} :
         CountOf(call.out, char)
           = MarkupCount(Len(graph.nodes), Len(graph.edges), char)
    /\ \A p \in 1..Len(call.out) :
         call.out[p] = "&" =>
           \E entity \in Entities : LitAt(call.out, p, entity)

\* the issues of a list that a signature raised on a line
RaisedOn(result, n, k) ==
  {i \in 1..Len(result) :
     result[i].line = n /\ result[i].type = patterns[k].name}

\* C19: scanSecurityIssues returns one finding for every match of every
\* signature on every line, repeated matches on a line included, in the
\* order of the lines; a finding carries the number of its line, counted
\* from 1, and the severity and the CWE of its signature; the line
\* exec(cmd + "${userInput}") yields a critical finding with CWE-78.
C19_OneFindingPerMatch ==
  scanning = "returned" =>
    LET result == scanned[1]
        lines  == split(code.code, NewlineEnds(code.code))
    IN  /\ Len(lines) = CountOf(code.code, "\n") + 1
        /\ \A i \in 1..Len(result) :
             /\ result[i].line \in 1..Len(lines)
             /\ \E k \in 1..Len(patterns) :
                  /\ result[i].type = patterns[k].name
                  /\ result[i].severity = patterns[k].severity
                  /\ result[i].cwe = patterns[k].cwe
             /\ \A j \in 1..Len(result) :
                  i < j => result[i].line <= result[j].line
        /\ \A n \in 1..Len(lines) : \A k \in 1..Len(patterns) :
             LET ms == matchAll(lines[n], PatternEnds(k, lines[n]))
             IN  /\ Cardinality(RaisedOn(result, n, k)) = Len(ms)
                 /\ {result[i].column : i \in RaisedOn(result, n, k)}
                      = {ms[m].first - 1 : m \in 1..Len(ms)}
        /\ \A n \in 1..Len(lines) :
             lines[n] = LineExec =>
               \E i \in 1..Len(result) :
                 /\ result[i].line = n
                 /\ result[i].severity = "critical"
                 /\ result[i].cwe = "CWE-78"

\* a code of two lines was scanned: the first has the command injection,
\* the second three matches of one signature
C19_Witness ==
  /\ scanning = "returned"
  /\ code.code = LineExec \o <<"\n">> \o LineDigests
  /\ Len(scanned[1]) = 4
  /\ scanned[1][1].cwe = "CWE-78"
  /\ \A i \in 2..4 : scanned[1][i].line = 2 /\ scanned[1][i].cwe = "CWE-327"

\* C20: an explicit claim field ends where the next labelled field begins,
\* on the same line too: parseAgentOutput on the text `Claim: Use caching.
\* Grounds: profiling shows 80% cpu time here.` returns one Argument, its
\* claim is `Use caching.` and its grounds have one entry.
C20_ClaimEndsAtNextField ==
  (call.op = "parseAgentOutput" /\ call.in[2] = OutCaching) =>
    /\ Len(call.out) = 1
    /\ ArgumentOf(call.out[1]).claim = ClaimCaching
    /\ Len(ArgumentOf(call.out[1]).grounds) = 1

\* ------------------------------------------------------------------------
\* Claims on the rules of analyzeRelationship
\* ------------------------------------------------------------------------

\* the edges of the current graph that join the arguments with these ids
EdgesBetween(id1, id2) ==
  {k \in 1..Len(graph.edges) :
     {graph.edges[k].from, graph.edges[k].to} = {id1, id2}}

\* the later argument names the earlier one's persona in its claim, or
\* quotes the start of the earlier claim in its rebuttal
RebutsApplies(earlier, later) ==
  \/ includes(later.claim, earlier.agent)
  \/ /\ later.rebuttal # <<>>
     /\ includes(later.rebuttal, substring(earlier.claim, 0, ClaimPrefixLength))

\* the similarity of the two claims is above 0.7
SupportsApplies(earlier, later) ==
  LET similarity == calculateSimilarity(earlier.claim, later.claim)
  IN  similarity.num * 10 > 7 * similarity.den

\* one claim holds a word of an antonym pair and the other claim holds the
\* opposite word, whatever the case of the letters
HoldOpposites(earlier, later) ==
  \E k \in 1..Len(opposites) :
    \E a, b \in {1, 2} :
      /\ a # b
      /\ includes(toLowerCase(earlier.claim), opposites[k][a])
      /\ includes(toLowerCase(later.claim), opposites[k][b])

\* which rules apply to each pair of stored arguments (computed once)
PairRules ==
  [earlier \in StoredArguments, later \in StoredArguments |->
     [rebuts    |-> RebutsApplies(earlier, later),
      supports  |-> SupportsApplies(earlier, later),
      opposites |-> HoldOpposites(earlier, later)]]

\* the rules that apply to a pair of arguments of any strength
RulesOf(earlier, later) == PairRules[AsStored(earlier), AsStored(later)]

\* C21: after buildArgumentGraph, a pair of arguments (i earlier, j later in
\* the list) to which the rebuts rule does not apply, whose claims are not
\* more than 0.7 similar and hold opposite words of an antonym pair, has
\* exactly one edge: an undermines edge of strength 0.7 from i to j. So it
\* is for `We should approve this change` and `We should reject this
\* change` of personas that neither claim names.
C21_OppositesUndermine ==
  call.op = "buildArgumentGraph" =>
    \A i, j \in 1..Len(call.in) :
      LET earlier == ArgumentOf(call.in[i])
          later   == ArgumentOf(call.in[j])
          between == EdgesBetween(earlier.id, later.id)
      IN  /\ (/\ i < j
              /\ ~RulesOf(earlier, later).rebuts
              /\ ~RulesOf(earlier, later).supports
              /\ RulesOf(earlier, later).opposites)
               => /\ Cardinality(between) = 1
                  /\ \A k \in between :
                       graph.edges[k] =
                         [from |-> earlier.id, to |-> later.id,
                          type |-> "undermines", strength |-> Fraction(7, 10)]
          /\ (/\ i < j
              /\ earlier.claim = ClaimApprove
              /\ later.claim = ClaimReject
              /\ ~includes(ClaimApprove, later.agent)
              /\ ~includes(ClaimReject, earlier.agent))
               => /\ Cardinality(between) = 1
                  /\ \A k \in between :
                       /\ graph.edges[k].type = "undermines"
                       /\ graph.edges[k].from = earlier.id

\* the graph was built from the approving claim and then the rejecting one
C21_Witness ==
  /\ call.op = "buildArgumentGraph"
  /\ Len(call.in) = 2
  /\ ArgumentOf(call.in[1]).claim = ClaimApprove
  /\ ArgumentOf(call.in[2]).claim = ClaimReject
  /\ Len(graph.edges) = 1
  /\ graph.edges[1].type = "undermines"

\* the type of the first rule of analyzeRelationship that applies to the
\* pair: rebuts, then supports, then undermines
FirstRule(earlier, later) ==
  IF RulesOf(earlier, later).rebuts THEN <<"rebuts">>
  ELSE IF RulesOf(earlier, later).supports THEN <<"supports">>
  ELSE IF RulesOf(earlier, later).opposites THEN <<"undermines">>
  ELSE <<>>

\* C25: buildArgumentGraph creates at most one edge for each unordered pair
\* of arguments, of the type of the first rule that applies in the order
\* rebuts, supports, undermines: a pair under the rebuts rule has only a
\* rebuts edge, also when its claims are more than 0.7 similar, and a pair
\* of claims more than 0.7 similar has only a supports edge, also when the
\* claims hold opposite antonyms.
C25_FirstRuleDecides ==
  call.op = "buildArgumentGraph" =>
    \A i, j \in 1..Len(call.in) :
      i < j =>
        LET earlier == ArgumentOf(call.in[i])
            later   == ArgumentOf(call.in[j])
            between == EdgesBetween(earlier.id, later.id)
            rule    == FirstRule(earlier, later)
        IN  /\ Cardinality(between) = Len(rule)
            /\ \A k \in between : graph.edges[k].type = rule[1]

\* the graph was built from two arguments to which all three rules apply:
\* the later claim names the persona of the earlier, the claims are more
\* than 0.7 similar and hold approve and reject; the one edge is a rebuts
C25_Witness ==
  /\ call.op = "buildArgumentGraph"
  /\ Len(call.in) = 2
  /\ LET earlier == ArgumentOf(call.in[1])
         later   == ArgumentOf(call.in[2])
     IN  /\ RulesOf(earlier, later).rebuts
         /\ RulesOf(earlier, later).supports
         /\ RulesOf(earlier, later).opposites
  /\ Len(graph.edges) = 1
  /\ graph.edges[1].type = "rebuts"

\* C26 as claimed: if the claim of either argument of a pair contains the
\* persona name of the other (the earlier naming the later, or the later
\* naming the earlier), buildArgumentGraph creates a rebuts edge of strength
\* 0.8 for the pair, from the later argument to the earlier.
C26_EitherNamingRebuts ==
  call.op = "buildArgumentGraph" =>
    \A i, j \in 1..Len(call.in) :
      LET earlier == ArgumentOf(call.in[i])
          later   == ArgumentOf(call.in[j])
      IN  (/\ i < j
           /\ \/ includes(later.claim, earlier.agent)
              \/ includes(earlier.claim, later.agent))
            => \E k \in 1..Len(graph.edges) :
                 graph.edges[k] =
                   [from |-> later.id, to |-> earlier.id, type |-> "rebuts",
                    strength |-> Fraction(8, 10)]

\* C26 amended: if the claim of the later argument of a pair contains the
\* persona name of the earlier, buildArgumentGraph creates a rebuts edge of
\* strength 0.8 for the pair, from the later argument to the earlier. A
\* pair has no rebuts edge when the later claim does not name the earlier
\* persona and the later rebuttal does not quote the earlier claim, also
\* when the earlier claim names the later persona.
C26_LaterNamingRebuts ==
  call.op = "buildArgumentGraph" =>
    \A i, j \in 1..Len(call.in) :
      i < j =>
        LET earlier == ArgumentOf(call.in[i])
            later   == ArgumentOf(call.in[j])
            between == EdgesBetween(earlier.id, later.id)
        IN  /\ includes(later.claim, earlier.agent)
              => /\ Cardinality(between) = 1
                 /\ \A k \in between :
                      graph.edges[k] =
                        [from |-> later.id, to |-> earlier.id,
                         type |-> "rebuts", strength |-> Fraction(8, 10)]
            /\ ~RulesOf(earlier, later).rebuts
              => \A k \in between : graph.edges[k].type # "rebuts"

\* the graph was built from the argument of perf and then the argument of
\* sec whose claim names perf: the edge is a rebuts from the second to the
\* first
C26_Witness ==
  /\ call.op = "buildArgumentGraph"
  /\ Len(call.in) = 2
  /\ ArgumentOf(call.in[1]).agent = AgentPerf
  /\ ArgumentOf(call.in[2]).agent = AgentSec
  /\ includes(ArgumentOf(call.in[2]).claim, AgentPerf)
  /\ ~includes(ArgumentOf(call.in[1]).claim, AgentSec)
  /\ Len(graph.edges) = 1
  /\ graph.edges[1].type = "rebuts"
  /\ graph.edges[1].from = call.in[2]

\* ------------------------------------------------------------------------
\* Claims on the fields of a parsed argument
\* ------------------------------------------------------------------------

\* C27: the Argument that parseAgentOutput builds from a segment with a
\* `qualifier:` or a `rebuttal:` labelled line carries the text of the line
\* as its qualifier, respectively its rebuttal: parsed from a segment with
\* the lines `Qualifier: in most cases` and `Rebuttal: unless memory is
\* short`, the argument has that qualifier and that rebuttal.
C27_QualifierAndRebuttalAreCarried ==
  (call.op = "parseAgentOutput" /\ call.in[2] = OutQualified) =>
    /\ Len(call.out) = 1
    /\ ArgumentOf(call.out[1]).qualifier = TextQualifier
    /\ ArgumentOf(call.out[1]).rebuttal = TextRebuttal

\* ------------------------------------------------------------------------
\* Claims on the repetition of generateMetrics
\* ------------------------------------------------------------------------

\* C29: generateMetrics is idempotent: called again with no parseAgentOutput
\* or buildArgumentGraph call in between (an exportGraphML call in between
\* changes neither the arguments nor the graph), it returns the same
\* metrics and leaves the strength of every argument as the first call set
\* it.
C29_GenerateMetricsIsIdempotent ==
  [][((call.op = "generateMetrics" /\ call'.op = "generateMetrics")
        => (call'.out = call.out /\ arguments' = arguments /\ graph' = graph))
     /\ (call'.op = "exportGraphML"
          => (arguments' = arguments /\ graph' = graph))]_vars

\* generateMetrics was called twice in a row on two arguments joined by an
\* edge, and an argument has a strength above 0
C29_Witness ==
  /\ call.op = "generateMetrics"
  /\ call.repeated
  /\ Len(arguments) = 2
  /\ Len(graph.edges) = 1
  /\ \E i \in 1..Len(arguments) : arguments[i].strength > 0

\* ------------------------------------------------------------------------
\* Claims on the cache of buildContext
\* ------------------------------------------------------------------------

\* C22: a cached context is returned only if it was built from the same
\* content of the pull request: after the head commit of a pull request
\* changes, buildContext for the same number and options does not return
\* the context cached for the old head, also within the hour of the TTL.
C22_CachedContextIsOfCurrentHead ==
  built.op = "buildContext" => built.out.head = built.head


\* ------------------------------------------------------------------------
\* Claims on the matches of findSimilarChanges
\* ------------------------------------------------------------------------

\* the commit of the log that a match was made of
CommitOf(found) == repo.commits[found.commit]

\* C23: a retained commit that no branch named main or master contains is
\* recorded with the outcome rejected, not merged.
C23_OutsideMainIsRejected ==
  \A i \in 1..Len(search.matches) :
    ~CommitOf(search.matches[i]).inMain
      => search.matches[i].outcome = "rejected"

\* the similarity is at least 0.3
AtThreshold(similarity) == similarity.num * 10 >= 3 * similarity.den

\* C24: findSimilarChanges discards a commit only when its similarity is
\* below 0.3: a compared commit whose similarity is 0.3 or more (exactly 0.3
\* too: 3 shared tokens of 10) has a match, and every match has a
\* similarity of at least 0.3.
C24_DiscardsOnlyBelowThreshold ==
  /\ \A i \in Compared :
       AtThreshold(SimilarityOf(i)) =>
         \E k \in 1..Len(search.matches) : search.matches[k].commit = i
  /\ \A k \in 1..Len(search.matches) :
       AtThreshold(search.matches[k].similarity)

\* ------------------------------------------------------------------------
\* Claims on the summary of the risk assessment
\* ------------------------------------------------------------------------

\* the scores of the assessment that are 7 or more, by the word of the
\* summary for them
Concerns(a) ==
  {w \in {trim(ConcernSecurity), trim(ConcernPerformance),
          trim(ConcernArchitecture), trim(ConcernCompatibility)} :
     \/ w = trim(ConcernSecurity) /\ AtLeast(a.security, 7)
     \/ w = trim(ConcernPerformance) /\ AtLeast(a.performance, 7)
     \/ w = trim(ConcernArchitecture) /\ AtLeast(a.architectural, 7)
     \/ w = trim(ConcernCompatibility) /\ AtLeast(a.compatibility, 7)}

\* C28: when none of the four scores is 7 or more, the summary of
\* calculateRiskAssessment falls back to the text `None identified`;
\* otherwise it names exactly the dimensions that scored 7 or more.
C28_SummaryFallsBack ==
  assessment # <<>> =>
    LET a == assessment[1]
    IN  IF Concerns(a) = {}
        THEN includes(a.summary, NoneIdentified)
        ELSE \A w \in {trim(ConcernSecurity), trim(ConcernPerformance),
                       trim(ConcernArchitecture), trim(ConcernCompatibility)} :
               includes(a.summary, w) <=> w \in Concerns(a)

\* ------------------------------------------------------------------------
\* Claims on the failures of the lookups of findSimilarChanges
\* ------------------------------------------------------------------------

\* the matches made of the commit at this position of the log
MatchesOf(i) == {k \in 1..Len(search.matches) : search.matches[k].commit = i}

\* C30: a failure of the outcome lookup or of the related-issue lookup for
\* a retained commit neither aborts the scan nor drops the commit: the
\* commit has its match, with the outcome merged (respectively with no
\* issue), and the scan goes on to the commits after it; a failed diff
\* retrieval ends the scan at its commit, which is not compared.
C30_LookupFailureKeepsCommit ==
  /\ \A i \in Compared :
       LET commit == repo.commits[i]
       IN  (AboveThreshold(SimilarityOf(i)) /\ commit.failing # {}) =>
             /\ Cardinality(MatchesOf(i)) = 1
             /\ \A k \in MatchesOf(i) :
                  /\ (commit.failing \cap {"contains", "grep"} # {}
                        => search.matches[k].outcome = "merged")
                  /\ ("message" \in commit.failing
                        => search.matches[k].issues = <<>>)
  /\ (finding = "comparing" => ~search.failed)
  /\ (finding \in {"returning", "returned"} /\ ~search.failed)
       => search.next = Len(repo.commits) + 1
  /\ \A k \in 1..Len(search.matches) : search.matches[k].commit < search.next

\* the scan returned without a failure of git log or git show; the first
\* commit's outcome lookup failed, the second's issue lookup failed, and
\* both are among the matches with the third commit
C30_Witness ==
  /\ finding = "returned"
  /\ ~search.failed
  /\ Len(repo.commits) = 3
  /\ repo.commits[1].failing = {"grep"}
  /\ repo.commits[2].failing = {"message"}
  /\ repo.commits[3].failing = {}
  /\ Len(similar[1]) = 3
  /\ \E k \in 1..3 :
       similar[1][k].commit = 1 /\ similar[1][k].outcome = "merged"
  /\ \E k \in 1..3 :
       similar[1][k].commit = 2 /\ similar[1][k].issues = <<>>
====
